---- MODULE Spec2Model ----
(***************************************************************************)
(* Model of the cc-sessions admission gate:                                *)
(*   cc_sessions/python/hooks/sessions_enforce.py  (PreToolUse hook)       *)
(*   cc_sessions/hooks/workflow_manager.py         (branch guard)          *)
(*                                                                         *)
(* A command line is a sequence of atoms.  An atom is either one special   *)
(* character (" ", ">", "<", "&", "|", a quote, a digit) or a whole run    *)
(* of ordinary characters ("cat", "rm", "f").  The regular expressions and *)
(* the tokenizer of the source only distinguish these classes, so they     *)
(* are evaluated on the atoms exactly as the source evaluates them on the  *)
(* characters.  No atom sequence of two or more atoms spells one of the    *)
(* command names of READONLY_FIRST / WRITE_FIRST.                          *)
(***************************************************************************)
EXTENDS Integers, Sequences, FiniteSets, TLC

VARIABLES
    state,      \* the persisted sessions-state.json document
    config,     \* the loaded sessions configuration
    request,    \* the last hook input (tool_name, tool_input, environment)
    outcome,    \* what the last invocation did (exit code, output, events)
    before,     \* state as the last invocation loaded it
    wm_branch,  \* what workflow_manager's branch guard answers for request
    run,        \* the current run of consecutive plan-mode entries
    command,    \* classifier check: the command line under classification
    verdict,    \* classifier check: "none", "readonly" or "mutating"
    wm,         \* workflow_manager: the files under .claude/state and the clock
    delegations,\* per session: delegations begun and not yet ended
    lingering,  \* sessions whose delegations all ended without a clear
    wm_last,    \* workflow_manager: the step just taken and its result
    disk        \* state persistence: the files as they are on disk, and the writer

vars == <<state, config, request, outcome, before, wm_branch, run, command, verdict,
          wm, delegations, lingering, wm_last, disk>>

wmVars == <<wm, delegations, lingering, wm_last, disk>>

gateVars == <<state, request, outcome, before, wm_branch, run>>

classifyVars == <<command, verdict>>

-----------------------------------------------------------------------------
(* Bounds of the model                                                     *)

MaxCmdLen == 4

MaxGateCmdLen == 5

MaxPathLen == 3

MaxTodos == 2

MaxEntries == 3

\* the clock of the cooldown window runs from 0 to MaxClock
MaxClock == 1

\* nested delegations per session
MaxDepth == 2

SeqsUpTo(S, n) == UNION { [1..k -> S] : k \in 0..n }

-----------------------------------------------------------------------------
(* Atoms and character classes                                             *)

SP == " "

SQ == "'"

DQ == "\""

IsSpace(a) == a = SP

IsDigit(a) == a \in {"0", "1", "2", "3", "4", "5", "6", "7", "8", "9"}

IsQuote(a) == a \in {SQ, DQ}

\* str.lower() on the atoms that carry upper-case letters
Lower(a) ==
    CASE a = "CAT" -> "cat"
      [] a = "RM" -> "rm"
      [] a = "LS" -> "ls"
      [] OTHER -> a

\* str.strip(): drop leading and trailing whitespace
RECURSIVE LStrip(_)
LStrip(s) ==
    IF s # << >> /\ IsSpace(Head(s)) THEN LStrip(Tail(s)) ELSE s

RECURSIVE RStrip(_)
RStrip(s) ==
    IF s # << >> /\ IsSpace(s[Len(s)]) THEN RStrip(SubSeq(s, 1, Len(s) - 1)) ELSE s

Strip(s) == RStrip(LStrip(s))

\* s[i] exists and is the atom a
At(s, i, a) == i >= 1 /\ i <= Len(s) /\ s[i] = a

\* the atoms of op stand at s[i], s[i+1], ...
MatchAt(s, i, op) ==
    /\ i + Len(op) - 1 <= Len(s)
    /\ \A k \in 1..Len(op) : s[i + k - 1] = op[k]

\* (?:^|\s) in front of position i
Boundary(s, i) == i = 1 \/ (i >= 2 /\ i - 1 <= Len(s) /\ IsSpace(s[i - 1]))

\* (?:\s|$) at position i
SpaceOrEnd(s, i) == i > Len(s) \/ IsSpace(s[i])

-----------------------------------------------------------------------------
(* Command-name sets                                                       *)

READONLY_BUILTIN ==
    { "cat", "less", "more", "head", "tail", "wc", "nl", "tac", "rev",
      "grep", "egrep", "fgrep", "rg", "ripgrep", "ag", "ack",
      "sort", "uniq", "cut", "paste", "join", "comm", "column",
      "tr", "expand", "unexpand", "fold", "fmt", "pr", "shuf", "tsort",
      "diff", "cmp", "sdiff", "vimdiff",
      "md5sum", "sha1sum", "sha256sum", "sha512sum", "cksum", "sum",
      "od", "hexdump", "xxd", "strings", "file", "readelf", "objdump", "nm",
      "ls", "dir", "vdir", "pwd", "which", "type", "whereis", "locate", "find",
      "basename", "dirname", "readlink", "realpath", "stat",
      "whoami", "id", "groups", "users", "who", "w", "last", "lastlog",
      "hostname", "uname", "arch", "lsb_release", "hostnamectl",
      "date", "cal", "uptime", "df", "du", "free", "vmstat", "iostat",
      "ps", "pgrep", "pidof", "top", "htop", "iotop", "atop",
      "lsof", "jobs", "pstree", "fuser",
      "netstat", "ss", "ip", "ifconfig", "route", "arp",
      "ping", "traceroute", "tracepath", "mtr", "nslookup", "dig", "host", "whois",
      "printenv", "env", "set", "export", "alias", "history", "fc",
      "echo", "printf", "yes", "seq", "jot",
      "test", "[", "[[", "true", "false",
      "bc", "dc", "expr", "factor", "units",
      "jq", "yq", "xmlstarlet", "xmllint", "xsltproc",
      "bat", "fd", "fzf", "tree", "ncdu", "exa", "lsd",
      "tldr", "cheat",
      "ast-grep", "sg", "ast_grep",
      "awk", "sed", "gawk", "mawk", "gsed" }

WRITE_BUILTIN ==
    { "rm", "rmdir", "unlink", "shred",
      "mv", "rename", "cp", "install", "dd",
      "mkdir", "mkfifo", "mknod", "mktemp", "touch", "truncate",
      "chmod", "chown", "chgrp", "umask",
      "ln", "link", "symlink",
      "setfacl", "setfattr", "chattr",
      "useradd", "userdel", "usermod", "groupadd", "groupdel",
      "passwd", "chpasswd", "systemctl", "service",
      "apt", "apt-get", "dpkg", "snap", "yum", "dnf", "rpm",
      "pip", "pip3", "npm", "yarn", "gem", "cargo",
      "make", "cmake", "ninja", "meson",
      "sudo", "doas", "su", "crontab", "at", "batch",
      "kill", "pkill", "killall", "tee" }

\* READONLY_FIRST.update(CONFIG.blocked_actions.bash_read_patterns)
READONLY_FIRST(cfg) == READONLY_BUILTIN \cup cfg.bash_read_patterns

\* WRITE_FIRST.update(CONFIG.blocked_actions.bash_write_patterns)
WRITE_FIRST(cfg) == WRITE_BUILTIN \cup cfg.bash_write_patterns

-----------------------------------------------------------------------------
(* REDIR: the three redirection patterns, searched anywhere in the line    *)

\* (?:^|\s)(?:>>?|<<?|<<<)\s
RedirBasic(s) ==
    \E i \in 1..Len(s) :
        /\ Boundary(s, i)
        /\ \E op \in { <<">">>, <<">", ">">>, <<"<">>, <<"<", "<">>, <<"<", "<", "<">> } :
              /\ MatchAt(s, i, op)
              /\ At(s, i + Len(op), SP)

\* (?:^|\s)\d*>&?\d*(?:\s|$)
RedirFd(s) ==
    \E i \in 1..Len(s) :
        /\ Boundary(s, i)
        /\ \E j \in i..Len(s) :
              /\ \A k \in i..(j - 1) : IsDigit(s[k])
              /\ s[j] = ">"
              /\ \E amp \in {0, 1} :
                    /\ amp = 1 => At(s, j + 1, "&")
                    /\ \E m \in (j + 1 + amp)..(Len(s) + 1) :
                          /\ \A k \in (j + 1 + amp)..(m - 1) : IsDigit(s[k])
                          /\ SpaceOrEnd(s, m)

\* (?:^|\s)&>
RedirBoth(s) ==
    \E i \in 1..Len(s) : Boundary(s, i) /\ At(s, i, "&") /\ At(s, i + 1, ">")

\* REDIR.search(s)
REDIR(s) == RedirBasic(s) \/ RedirFd(s) \/ RedirBoth(s)

-----------------------------------------------------------------------------
(* re.split(r'(?<!\|)\|(?!\|)|&&|\|\|', s)                                 *)

RECURSIVE SplitFrom(_, _, _, _)
SplitFrom(s, i, cur, acc) ==
    IF i > Len(s) THEN Append(acc, cur)
    ELSE IF /\ s[i] = "|"
            /\ ~ At(s, i - 1, "|")
            /\ ~ At(s, i + 1, "|")
         THEN SplitFrom(s, i + 1, << >>, Append(acc, cur))
    ELSE IF s[i] = "&" /\ At(s, i + 1, "&")
         THEN SplitFrom(s, i + 2, << >>, Append(acc, cur))
    ELSE IF s[i] = "|" /\ At(s, i + 1, "|")
         THEN SplitFrom(s, i + 2, << >>, Append(acc, cur))
    ELSE SplitFrom(s, i + 1, Append(cur, s[i]), acc)

SplitSegments(s) == SplitFrom(s, 1, << >>, << >>)

-----------------------------------------------------------------------------
(* shlex.split(segment): POSIX word splitting with quotes.  The result is  *)
(* [ok, parts]; ok = FALSE is the ValueError of an unclosed quotation.     *)

RECURSIVE ShlexFrom(_, _, _, _, _, _)
ShlexFrom(s, i, quote, inTok, cur, acc) ==
    IF i > Len(s)
    THEN IF quote # ""
         THEN [ok |-> FALSE, parts |-> << >>]
         ELSE [ok |-> TRUE, parts |-> IF inTok THEN Append(acc, cur) ELSE acc]
    ELSE IF quote # ""
         THEN IF s[i] = quote
              THEN ShlexFrom(s, i + 1, "", TRUE, cur, acc)
              ELSE ShlexFrom(s, i + 1, quote, TRUE, Append(cur, s[i]), acc)
    ELSE IF IsSpace(s[i])
         THEN ShlexFrom(s, i + 1, "", FALSE, << >>, IF inTok THEN Append(acc, cur) ELSE acc)
    ELSE IF IsQuote(s[i])
         THEN ShlexFrom(s, i + 1, s[i], TRUE, cur, acc)
    ELSE ShlexFrom(s, i + 1, "", TRUE, Append(cur, s[i]), acc)

ShlexSplit(s) == ShlexFrom(s, 1, "", FALSE, << >>, << >>)

\* the text of a token when it is a single atom; no listed name otherwise
Word(tok) == IF Len(tok) = 1 THEN tok[1] ELSE IF tok = << >> THEN "" ELSE "<composite>"

\* tok.startswith(w) for an atom w
StartsWith(tok, w) == Len(tok) >= 1 /\ tok[1] = w

\* ' '.join(args)
RECURSIVE JoinArgs(_)
JoinArgs(args) ==
    IF args = << >> THEN << >>
    ELSE IF Len(args) = 1 THEN args[1]
    ELSE args[1] \o <<SP>> \o JoinArgs(Tail(args))

-----------------------------------------------------------------------------
(* check_command_arguments(parts): FALSE when the arguments of an          *)
(* otherwise read-only command make it write                               *)

LowerTok(tok) == [k \in 1..Len(tok) |-> Lower(tok[k])]

\* arg.startswith('-i'): the atoms that begin with the characters "-i"
DashIAtoms == {"-i", "-i.bak"}

StartsWithDashI(tok) == Len(tok) >= 1 /\ tok[1] \in DashIAtoms

\* sed / gsed: -i... or --in-place among the arguments
SedWrites(args) ==
    \E k \in 1..Len(args) : StartsWithDashI(args[k]) \/ args[k] = <<"--in-place">>

\* re.search(r'>\s*["\'].*["\']', script); the '>>' pattern matches only
\* where this one does
AwkQuotedTarget(script) ==
    \E i \in 1..Len(script) :
        /\ script[i] = ">"
        /\ \E j \in (i + 1)..Len(script) :
              /\ \A k \in (i + 1)..(j - 1) : IsSpace(script[k])
              /\ IsQuote(script[j])
              /\ \E m \in (j + 1)..Len(script) : IsQuote(script[m])

\* 'print >' in script or 'printf >' in script (the '>>' forms contain these)
AwkPrintRedirect(script) ==
    \E i \in 1..Len(script) :
        /\ script[i] \in {"print", "printf"}
        /\ At(script, i + 1, SP)
        /\ At(script, i + 2, ">")

AwkWrites(args) ==
    LET script == JoinArgs(args)
    IN  AwkQuotedTarget(script) \/ AwkPrintRedirect(script)

\* find: -delete, or -exec / -execdir followed by a listed program
FindWrites(args, cfg) ==
    \/ \E k \in 1..Len(args) : args[k] = <<"-delete">>
    \/ \E k \in 1..Len(args) :
          /\ args[k] \in { <<"-exec">>, <<"-execdir">> }
          /\ k + 1 <= Len(args)
          /\ Word(LowerTok(args[k + 1])) \in WRITE_FIRST(cfg) \cup {"rm", "mv", "cp", "shred"}

\* xargs: a listed write command among the arguments, or sed followed by -i
XargsWrites(args, cfg) ==
    \/ \E k \in 1..Len(args) : Word(args[k]) \in WRITE_FIRST(cfg)
    \/ /\ \E k \in 1..Len(args) : args[k] = <<"sed">>
       /\ LET sed_idx == CHOOSE k \in 1..Len(args) :
                            /\ args[k] = <<"sed">>
                            /\ \A h \in 1..(k - 1) : args[h] # <<"sed">>
          IN  sed_idx + 1 <= Len(args) /\ StartsWithDashI(args[sed_idx + 1])

check_command_arguments(parts, cfg) ==
    IF parts = << >> THEN TRUE
    ELSE LET cmd == Word(LowerTok(parts[1]))
             args == Tail(parts)
         IN  /\ ~ (cmd \in {"sed", "gsed"} /\ SedWrites(args))
             /\ ~ (cmd \in {"awk", "gawk", "mawk"} /\ AwkWrites(args))
             /\ ~ (cmd = "find" /\ FindWrites(args, cfg))
             /\ ~ (cmd = "xargs" /\ XargsWrites(args, cfg))

-----------------------------------------------------------------------------
(* is_bash_read_only(command)                                              *)

\* the policy read without its default: an unset value counts as off
ExtraSafe_UnsetIsOff(cfg) == cfg.extrasafe = "true"

\* extrasafe = CONFIG.blocked_actions.extrasafe if it is not None else True
ExtraSafe(cfg) == IF cfg.extrasafe = "unset" THEN TRUE ELSE cfg.extrasafe = "true"

\* parts[1].lower() if len(parts) > 1 else ''
Subcommand(parts) == IF Len(parts) > 1 THEN Word(LowerTok(parts[2])) ELSE ""

\* One pass of the segment loop: "continue" goes on to the next segment,
\* "false" and "true" are the value the function returns at once.
SegmentVerdict(segment, cfg) ==
    LET seg == Strip(segment)
        lexed == ShlexSplit(seg)
        parts == lexed.parts
        first == Word(LowerTok(parts[1]))
    IN  IF seg = << >> THEN "continue"
        ELSE IF ~ lexed.ok THEN (IF ExtraSafe(cfg) THEN "false" ELSE "true")
        ELSE IF parts = << >> THEN "continue"
        ELSE IF first = "cd" THEN "continue"
        ELSE IF first \in {"pip", "pip3"}
             THEN IF Subcommand(parts) \in {"show", "list", "search", "check", "freeze", "help"}
                  THEN "continue" ELSE "false"
        ELSE IF first \in {"npm", "yarn"}
             THEN IF Subcommand(parts) \in {"list", "ls", "view", "show", "search", "help"}
                  THEN "continue" ELSE "false"
        ELSE IF first \in {"python", "python3"}
             THEN IF Len(parts) > 1 /\ Word(parts[2]) \in {"-c", "-m"}
                  THEN "continue" ELSE "false"
        ELSE IF first \in WRITE_FIRST(cfg) THEN "false"
        ELSE IF ~ check_command_arguments(parts, cfg) THEN "false"
        ELSE IF first \in cfg.bash_read_patterns THEN "continue"
        ELSE IF first \notin READONLY_FIRST(cfg) /\ ExtraSafe(cfg) THEN "false"
        ELSE "continue"

RECURSIVE SegmentLoop(_, _, _)
SegmentLoop(segments, k, cfg) ==
    IF k > Len(segments) THEN TRUE
    ELSE LET v == SegmentVerdict(segments[k], cfg)
         IN  IF v = "continue" THEN SegmentLoop(segments, k + 1, cfg)
             ELSE v = "true"

is_bash_read_only(cmd, cfg) ==
    LET s == Strip(cmd)
    IN  IF s = << >> THEN TRUE
        ELSE IF REDIR(s) THEN FALSE
        ELSE SegmentLoop(SplitSegments(s), 1, cfg)

-----------------------------------------------------------------------------
(* Configuration (sessions-config.json as load_config() returns it)        *)

DefaultConfig ==
    [ extrasafe |-> "unset",
      bash_read_patterns |-> {},
      bash_write_patterns |-> {},
      implementation_only_tools |-> {"Write", "Edit", "MultiEdit", "NotebookEdit"},
      branch_enforcement |-> TRUE ]

-----------------------------------------------------------------------------
(* Workflow modes, tools and the persisted state document                  *)

Mode_NO == "discussion"

Mode_GO == "implementation"

Mode_PLAN == "plan"

Modes == {Mode_NO, Mode_GO, Mode_PLAN}

CCTools_PLAN == "EnterPlanMode"

CCTools_EXITPLANMODE == "ExitPlanMode"

\* a metadata key that is not in the dict
Absent == "<absent>"

\* current_task.branch is None
NoBranch == ""

\* CONFIG.blocked_actions.is_tool_blocked(tool_name)
is_tool_blocked(cfg, tool_name) == tool_name \in cfg.implementation_only_tools

\* STATE.todos.list_content('active') and [t.get('content','') for t in incoming_todos]
list_content(todos) == [k \in 1..Len(todos) |-> todos[k].content]

\* s.todos.stash_active(force=False): move the active list to the stash
\* unless a stash exists; the result is the number of todos stashed
stash_active(s) ==
    IF s.stashed = << >>
    THEN [state |-> [s EXCEPT !.stashed = s.active, !.active = << >>], n |-> Len(s.active)]
    ELSE [state |-> s, n |-> 0]

\* s.todos.restore_stashed(): the stash becomes the active list again
restore_stashed(s) ==
    IF s.stashed = << >> THEN s
    ELSE [s EXCEPT !.active = s.stashed, !.stashed = << >>]

\* s.todos.clear_active()
clear_active(s) == [s EXCEPT !.active = << >>]

\* s.todos.store_todos(incoming_todos)
store_todos(s, incoming) == [ok |-> TRUE, state |-> [s EXCEPT !.active = incoming]]

-----------------------------------------------------------------------------
(* File paths: [anchor, comps].  anchor "rel" is a relative path (the hook *)
(* runs in the project root), "abs_in" an absolute path that has           *)
(* PROJECT_ROOT as a lexical prefix, "abs_out" any other absolute path;    *)
(* comps are the components after the anchor, ".." kept as pathlib keeps   *)
(* it.  NoPath is the missing or empty file_path.                          *)

NoPath == [anchor |-> "none", comps |-> << >>]

HasPath(p) == p.anchor # "none"

\* file_path.name
PathName(p) == p.comps[Len(p.comps)]

\* file_path.parent.name
ParentName(p) ==
    IF Len(p.comps) >= 2 THEN p.comps[Len(p.comps) - 1]
    ELSE IF p.anchor = "rel" THEN ""
    ELSE IF p.anchor = "abs_in" THEN "<project>"
    ELSE "<elsewhere>"

AllowedDirs == {"sessions", ".claude", "docs", "plans", "notes", "logs"}

\* component names that end with one of the allowed directory names
EndsWithAllowedDir(c) == c \in AllowedDirs \cup {"mydocs"}

is_work_artifact_path(p) ==
    IF ~ HasPath(p) THEN FALSE
    ELSE IF p.anchor \in {"rel", "abs_in"}
         \* rel_path_str.startswith(prefix), every prefix ending in "/"
         THEN Len(p.comps) >= 2 /\ p.comps[1] \in AllowedDirs
         \* relative_to raised ValueError: prefix in path_str
         ELSE \E k \in 1..(Len(p.comps) - 1) : EndsWithAllowedDir(p.comps[k])

IsStateFile(p) ==
    /\ HasPath(p)
    /\ PathName(p) = "sessions-state.json"
    /\ ParentName(p) = "sessions"

-----------------------------------------------------------------------------
(* Outcome of one invocation                                               *)

Pending == [exit |-> -1, kind |-> "pending", stderr |-> "", mode_name |-> "",
            structured |-> FALSE, events |-> << >>]

Out(exit, kind, stderr, events) ==
    [exit |-> exit, kind |-> kind, stderr |-> stderr, mode_name |-> "",
     structured |-> FALSE, events |-> events]

Done(st, out) == [state |-> st, outcome |-> out]

mode_name(st) == IF st.mode = Mode_PLAN THEN "Plan" ELSE "Discussion"

\* block_with_permission_reason: stderr text, structured payload on stdout,
\* a tool_blocked event, exit code 2
block_with_permission_reason(st, kind) ==
    [exit |-> 2, kind |-> kind, stderr |-> "DAIC: Tool Blocked", mode_name |-> mode_name(st),
     structured |-> TRUE, events |-> <<"tool_blocked">>]

-----------------------------------------------------------------------------
(* Plan mode entry and exit                                                *)

\* a faulty variant: every entry records the current mode
RememberPrevMode_Always(s) == [s EXCEPT !.plan_prev_mode = s.mode]

\* plan_prev_mode is recorded once, and never while already in plan mode
RememberPrevMode(s) ==
    IF s.mode # Mode_PLAN /\ s.plan_prev_mode = Absent
    THEN [s EXCEPT !.plan_prev_mode = s.mode]
    ELSE s

\* the active plan is stashed unless a stash was already counted or exists
StashOnEntry(s) ==
    IF s.active # << >> /\ s.plan_stashed_count = 0
    THEN LET r == IF s.stashed = << >> THEN stash_active(s) ELSE [state |-> s, n |-> 0]
         IN  IF r.n # 0 THEN [r.state EXCEPT !.plan_stashed_count = r.n] ELSE r.state
    ELSE s

PlanEntry(s) == [StashOnEntry(RememberPrevMode(s)) EXCEPT !.mode = Mode_PLAN]

\* a faulty variant: the remembered mode is restored as it is
ExitTargetMode_NoCollapse(prev_mode_value) ==
    IF prev_mode_value \in Modes THEN prev_mode_value ELSE Mode_NO

\* Mode(prev_mode_value), ValueError -> Mode.NO; Mode.GO collapses to Mode.NO
ExitTargetMode(prev_mode_value) ==
    LET target_mode == IF prev_mode_value = Absent THEN Mode_NO
                       ELSE IF prev_mode_value \in Modes THEN prev_mode_value
                       ELSE Mode_NO
    IN  IF target_mode = Mode_GO THEN Mode_NO ELSE target_mode

\* metadata.pop of both keys, restore when a stash was counted
RestoreOnExit(s) ==
    LET popped == [s EXCEPT !.plan_prev_mode = Absent, !.plan_stashed_count = 0]
    IN  IF s.plan_stashed_count # 0 THEN restore_stashed(popped) ELSE popped

PlanExit(s) == [RestoreOnExit(s) EXCEPT !.mode = ExitTargetMode(s.plan_prev_mode)]

-----------------------------------------------------------------------------
(* Bash handling in discussion / plan mode                                 *)

\* atoms whose text ends with "sessions"
EndsWithSessions(a) == a \in {"sessions"}

\* 'sessions ' in command or 'python -m cc_sessions.scripts.api' in command
IsApiCommand(cmd) ==
    /\ cmd # << >>
    /\ \/ \E i \in 1..Len(cmd) : EndsWithSessions(cmd[i]) /\ At(cmd, i + 1, SP)
       \/ \E i \in 1..Len(cmd) :
             MatchAt(cmd, i, <<"python", SP, "-m", SP, "cc_sessions.scripts.api">>)

BashInPlanning(req, st, cfg) ==
    LET cmd == Strip(req.command)
    IN  IF IsApiCommand(cmd) THEN Done(st, Out(0, "api_command", "", << >>))
        ELSE IF ~ is_bash_read_only(cmd, cfg)
             THEN Done(st, block_with_permission_reason(st, "bash_write_like"))
        ELSE Done(st, Out(0, "bash_read_only", "", <<"tool_allowed">>))

\* a Bash request that carries a file_path naming the state file
BashStateFileBlocked(req, cfg) ==
    /\ HasPath(req.file_path)
    /\ req.tool_name = "Bash"
    /\ IsStateFile(req.file_path)
    /\ ~ is_bash_read_only(Strip(req.command), cfg)

-----------------------------------------------------------------------------
(* Discussion / plan mode guard for the remaining tools                    *)

PlanningGuard(req, st, cfg) ==
    IF req.tool_name \in {"Write", "Edit", "MultiEdit"} /\ is_work_artifact_path(req.file_path)
    THEN Done(st, [Out(0, "work_artifact", "Mode", <<"tool_allowed">>)
                     EXCEPT !.mode_name = mode_name(st)])
    ELSE IF is_tool_blocked(cfg, req.tool_name)
         THEN Done(st, block_with_permission_reason(st, "tool_blocked_in_mode"))
    ELSE Done(st, Out(0, "not_blocked_in_mode", "", << >>))

-----------------------------------------------------------------------------
(* Git branch / task submodule enforcement (sessions_enforce.py)           *)

\* in_task: membership in the task's submodules, always true for the root
InTask(req, st) ==
    \/ req.repo.kind = "root"
    \/ (st.submodules # {} /\ req.repo.name \in st.submodules)

\* repo_path.relative_to(PROJECT_ROOT) in the remediation text raises
\* ValueError for a repository that is not under the project root
RelativeToRaises(req) == req.repo.kind = "outside"

BranchScenario(req, st) ==
    LET branch_correct == req.git.branch = st.branch
        in_task == InTask(req, st)
    IN  IF in_task /\ branch_correct
        THEN Out(0, "branch_ok", "", << >>)
        ELSE IF in_task /\ ~ branch_correct
             THEN IF RelativeToRaises(req)
                  THEN Out(1, "uncaught_ValueError", "Branch Mismatch", << >>)
                  ELSE Out(2, "wrong_branch", "Branch Mismatch", <<"branch_mismatch">>)
        ELSE IF ~ in_task /\ branch_correct
             THEN Out(2, "not_in_task", "Submodule Not in Task", <<"service_not_in_task">>)
        ELSE IF RelativeToRaises(req)
             THEN Out(1, "uncaught_ValueError", "Submodule Not in Task + Wrong Branch", << >>)
        ELSE Out(2, "not_in_task_wrong_branch", "Submodule Not in Task + Wrong Branch",
                 <<"service_not_in_task_and_wrong_branch">>)

BranchGuard(req, st, cfg) ==
    IF st.branch = NoBranch THEN Out(0, "no_task_branch", "", << >>)
    ELSE IF ~ cfg.branch_enforcement THEN Out(0, "branch_enforcement_off", "", << >>)
    ELSE IF req.repo.kind = "none" THEN Out(0, "no_repo", "", << >>)
    ELSE IF req.git.status = "timeout" THEN Out(0, "branch_unknown", "Warning", << >>)
    ELSE IF req.git.status = "oserror" THEN Out(1, "uncaught_OSError", "", << >>)
    ELSE BranchScenario(req, st)

-----------------------------------------------------------------------------
(* TodoWrite handling and everything after it                              *)

\* the state-file guard for the file tools and the branch guard
AfterTodoWrite(req, st, cfg) ==
    IF ~ HasPath(req.file_path) THEN Done(st, Out(0, "no_file_path", "", << >>))
    ELSE IF /\ req.tool_name \in {"Write", "Edit", "MultiEdit", "NotebookEdit"}
            /\ IsStateFile(req.file_path)
            /\ ~ st.bypass_mode
         THEN Done(st, Out(2, "state_file_protected", "Security", << >>))
    ELSE Done(st, BranchGuard(req, st, cfg))

\* a faulty variant: the whole todo records are compared, status included
TodoWriteGuard_WholeTodos(req, st, cfg) ==
    IF req.tool_name = "TodoWrite" /\ ~ st.bypass_mode
    THEN IF st.active # << >> /\ st.active # req.todos
         THEN Done([clear_active(st) EXCEPT !.mode = Mode_NO],
                   Out(2, "todo_violation", "DAIC: Blocked", << >>))
         ELSE AfterTodoWrite(req, store_todos(st, req.todos).state, cfg)
    ELSE AfterTodoWrite(req, st, cfg)

TodoWriteGuard(req, st, cfg) ==
    IF req.tool_name = "TodoWrite" /\ ~ st.bypass_mode
    THEN IF st.active # << >> /\ list_content(st.active) # list_content(req.todos)
         THEN Done([clear_active(st) EXCEPT !.mode = Mode_NO],
                   Out(2, "todo_violation", "DAIC: Blocked", << >>))
         ELSE LET stored == store_todos(st, req.todos)
              IN  IF ~ stored.ok
                  THEN Done(st, Out(2, "todo_store_failed", "TodoWrite Error", << >>))
                  ELSE AfterTodoWrite(req, stored.state, cfg)
    ELSE AfterTodoWrite(req, st, cfg)

-----------------------------------------------------------------------------
(* The hook: sessions_enforce.py, top to bottom                            *)

\* a faulty variant: the bypass flag is not consulted
InPlanning_IgnoresBypass(st) == st.mode \in {Mode_NO, Mode_PLAN}

InPlanning(st) == st.mode \in {Mode_NO, Mode_PLAN} /\ ~ st.bypass_mode

\* a faulty variant: the plan-mode boundary is handled before the CI test
Enforce_PlanBoundaryBeforeCI(req, st, cfg) ==
    IF req.tool_name = CCTools_PLAN /\ ~ st.bypass_mode
    THEN Done(PlanEntry(st), Out(0, "plan_entered", "Plan Mode", << >>))
    ELSE IF req.tool_name = CCTools_EXITPLANMODE /\ ~ st.bypass_mode
         THEN Done(PlanExit(st), Out(0, "plan_exited", "Plan Mode", << >>))
    ELSE IF req.ci THEN Done(st, Out(0, "ci_skip", "", << >>))
    ELSE IF req.tool_name = "Bash" /\ InPlanning(st)
         THEN BashInPlanning(req, st, cfg)
    ELSE IF BashStateFileBlocked(req, cfg)
         THEN Done(st, Out(2, "state_file_protected", "Security", << >>))
    ELSE IF InPlanning(st)
         THEN PlanningGuard(req, st, cfg)
    ELSE TodoWriteGuard(req, st, cfg)

Enforce(req, st, cfg) ==
    IF req.ci THEN Done(st, Out(0, "ci_skip", "", << >>))
    ELSE IF req.tool_name = CCTools_PLAN /\ ~ st.bypass_mode
         THEN Done(PlanEntry(st), Out(0, "plan_entered", "Plan Mode", << >>))
    ELSE IF req.tool_name = CCTools_EXITPLANMODE /\ ~ st.bypass_mode
         THEN Done(PlanExit(st), Out(0, "plan_exited", "Plan Mode", << >>))
    ELSE IF req.tool_name = "Bash" /\ InPlanning(st)
         THEN BashInPlanning(req, st, cfg)
    ELSE IF BashStateFileBlocked(req, cfg)
         THEN Done(st, Out(2, "state_file_protected", "Security", << >>))
    ELSE IF InPlanning(st)
         THEN PlanningGuard(req, st, cfg)
    ELSE TodoWriteGuard(req, st, cfg)

-----------------------------------------------------------------------------
(* enforce_branch_consistency of workflow_manager.py: "allow" or the       *)
(* reason it returns False; "raise" when the git call raises an error the  *)
(* function does not catch                                                 *)

enforce_branch_consistency(req, st, cfg) ==
    IF ~ cfg.branch_enforcement \/ req.tool_name \notin {"Write", "Edit", "MultiEdit"}
    THEN "allow"
    ELSE IF ~ HasPath(req.file_path) THEN "allow"
    ELSE IF st.branch = NoBranch THEN "allow"
    ELSE IF req.repo.kind = "none" THEN "allow"
    ELSE IF req.git.status = "timeout" THEN "allow"
    ELSE IF req.git.status = "oserror" THEN "raise"
    ELSE LET is_submodule == req.repo.kind = "inside"
             branch_correct == req.git.branch = st.branch
             in_task == req.repo.name \in st.submodules
         IN  IF is_submodule
             THEN IF in_task /\ branch_correct THEN "allow"
                  ELSE IF in_task /\ ~ branch_correct THEN "wrong_branch"
                  ELSE IF ~ in_task /\ branch_correct THEN "not_in_task"
                  ELSE "not_in_task_wrong_branch"
             ELSE IF ~ branch_correct THEN "wrong_branch" ELSE "allow"

-----------------------------------------------------------------------------
(* Requests                                                                *)

RepoNames == {"svcA", "svcB"}

NoRepo == [kind |-> "none", name |-> ""]

RootRepo == [kind |-> "root", name |-> "<project>"]

Repos ==
    {NoRepo, RootRepo} \cup { [kind |-> k, name |-> n] : k \in {"inside", "outside"}, n \in RepoNames }

NoGit == [status |-> "none", branch |-> ""]

GitResults ==
    { [status |-> "ok", branch |-> b] : b \in {"feature/x", "feature/y", ""} }
    \cup { [status |-> s, branch |-> ""] : s \in {"timeout", "oserror"} }

\* the repository find_git_repo returns and what git answers there
RepoInputs == {<<NoRepo, NoGit>>} \cup ((Repos \ {NoRepo}) \X GitResults)

Request(tool, cmd, path, todos, ci, repo, git) ==
    [tool_name |-> tool, command |-> cmd, file_path |-> path, todos |-> todos,
     ci |-> ci, repo |-> repo, git |-> git]

NoRequest == Request("", << >>, NoPath, << >>, FALSE, NoRepo, NoGit)

Contents == {"A", "B"}

Statuses == {"pending", "completed"}

Todos == [content : Contents, status : Statuses]

TodoLists == SeqsUpTo(Todos, MaxTodos)

PathComps == {"sessions", "..", "app.py", "sessions-state.json", "mydocs"}

Anchors == {"rel", "abs_in", "abs_out"}

AllPaths ==
    { [anchor |-> a, comps |-> c] :
        a \in Anchors, c \in SeqsUpTo(PathComps, MaxPathLen) \ {<< >>} }

CorePaths ==
    { [anchor |-> "rel", comps |-> <<"app.py">>],
      [anchor |-> "rel", comps |-> <<"sessions", "app.py">>],
      [anchor |-> "rel", comps |-> <<"sessions", "sessions-state.json">>] }

PathTools == {"Write", "Edit", "MultiEdit", "NotebookEdit", "Read"}

GateAtoms == {SP, "cat", "rm", "sessions"}

\* command lines whose words are separated by spaces
GateCmdLines ==
    { c \in SeqsUpTo(GateAtoms, MaxGateCmdLen) :
        \A i \in 1..(Len(c) - 1) : c[i] = SP \/ c[i + 1] = SP }

CoreCmds == { <<"cat", SP, "f">>, <<"rm", SP, "f">>, <<"sessions", SP, "state">> }

-----------------------------------------------------------------------------
(* workflow_manager.py: the unified hook and the shared state it reads     *)
(* (hooks/shared_state.py).  Command lines are sequences of atoms as       *)
(* above; "&&", "||" and ";" are single atoms here.                        *)

\* DEFAULT_CONFIG of workflow_manager.py
blocked_tools == {"Edit", "Write", "MultiEdit", "NotebookEdit"}

\* DEFAULT_CONFIG["read_only_bash_commands"], each prefix as atoms
read_only_bash_commands ==
    { <<w>> : w \in
        {"ls", "ll", "pwd", "cd", "echo", "cat", "head", "tail", "less", "more",
         "grep", "rg", "find", "which", "whereis", "type", "file", "stat",
         "du", "df", "tree", "basename", "dirname", "realpath", "readlink",
         "whoami", "env", "printenv", "date", "cal", "uptime", "ps", "top",
         "wc", "cut", "sort", "uniq", "comm", "diff", "cmp", "md5sum",
         "sha256sum", "curl", "wget", "jq", "awk",
         "dir", "where", "findstr", "fc", "comp",
         "Get-ChildItem", "Get-Location", "Get-Content", "Select-String",
         "Get-Command", "Get-Process", "Get-Date", "Get-Item"} }
    \cup { <<"git", SP, w>> : w \in
        {"status", "log", "diff", "show", "branch", "remote", "fetch",
         "describe", "rev-parse", "blame"} }
    \cup { <<"docker", SP, w>> : w \in {"ps", "images", "logs"} }
    \cup { <<"npm", SP, "list">>, <<"npm", SP, "ls">>, <<"pip", SP, "list">>,
           <<"pip", SP, "show">>, <<"yarn", SP, "list">>, <<"sed", SP, "-n">>,
           <<"tar", SP, "-t">>, <<"unzip", SP, "-l">>,
           <<"certutil", SP, "-hashfile">> }

WMConfig ==
    [blocked_tools |-> blocked_tools,
     read_only_bash_commands |-> read_only_bash_commands,
     branch_enforcement |-> TRUE]

\* atoms that are not words: white space, operators, redirections
IsOperatorAtom(a) == a \in {SP, "|", "||", "&&", ";", ">", ">>", "<", "&"}

\* the atom begins (ends) with a word character [A-Za-z0-9_]
BeginsWithWordChar(a) == ~ IsOperatorAtom(a) /\ a \notin {"./deploy.sh", "-i", "-n", "-o", "-O", "-x", "--output"}

EndsWithWordChar(a) == ~ IsOperatorAtom(a)

\* \b in front of the atom at position i, which begins with a word character
WordBoundaryBefore(s, i) == i = 1 \/ ~ EndsWithWordChar(s[i - 1])

\* \b after the atom at position i, which ends with a word character
WordBoundaryAfter(s, i) == i = Len(s) \/ ~ BeginsWithWordChar(s[i + 1])

\* \bw\b matches at position i
WholeWordAt(s, i, w) ==
    /\ At(s, i, w)
    /\ WordBoundaryBefore(s, i)
    /\ WordBoundaryAfter(s, i)

\* the first position after i that holds no white space, Len(s) + 1 if none
RECURSIVE SkipSpaces(_, _)
SkipSpaces(s, i) ==
    IF i <= Len(s) /\ IsSpace(s[i]) THEN SkipSpaces(s, i + 1) ELSE i

\* the atom a begins with the characters of x
AtomBeginsWith(a, x) == a = x \/ <<a, x>> \in {<<"-i.bak", "-i">>, <<"of=f", "of=">>}

\* w\s+x: the word w, white space, then an atom that begins with x
SpacedPair(s, i, w, x) ==
    /\ At(s, i, w)
    /\ At(s, i + 1, SP)
    /\ SkipSpaces(s, i + 1) <= Len(s)
    /\ AtomBeginsWith(s[SkipSpaces(s, i + 1)], x)

\* \bw\s+x
WordSpaceWord(s, i, w, x) == WordBoundaryBefore(s, i) /\ SpacedPair(s, i, w, x)

\* w\b.*x\b: the word w and, somewhere after it, the option x
WordThenOption(s, i, w, x) ==
    /\ At(s, i, w)
    /\ WordBoundaryAfter(s, i)
    /\ \E k \in (i + 1)..Len(s) : s[k] = x /\ WordBoundaryAfter(s, k)

\* some entry of write_patterns matches somewhere in the command
has_write_pattern(s) ==
    \E i \in 1..Len(s) :
        \* >\s*\S and >>\s*\S
        \/ (s[i] = ">" /\ SkipSpaces(s, i + 1) <= Len(s))
        \/ s[i] = ">>"
        \/ \E w \in {"tee", "mv", "cp", "rm", "mkdir", "touch"} : WholeWordAt(s, i, w)
        \/ WordSpaceWord(s, i, "sed", "-i")
        \/ WordThenOption(s, i, "curl", "-o")
        \/ WordThenOption(s, i, "curl", "--output")
        \/ WordThenOption(s, i, "wget", "-O")
        \/ SpacedPair(s, i, "tar", "-x")
        \/ SpacedPair(s, i, "unzip", "-o")
        \/ SpacedPair(s, i, "dd", "of=")
        \/ \E w \in {"npm", "pip", "apt", "yum", "brew"} : WordSpaceWord(s, i, w, "install")

\* re.split(r'(?:&&|\|\||;|\|)', command)
RECURSIVE SplitChain(_, _, _, _)
SplitChain(s, i, cur, acc) ==
    IF i > Len(s) THEN Append(acc, cur)
    ELSE IF s[i] \in {"&&", "||", ";", "|"}
         THEN SplitChain(s, i + 1, << >>, Append(acc, cur))
         ELSE SplitChain(s, i + 1, Append(cur, s[i]), acc)

\* part.startswith(prefix); no word of the model extends a prefix word
PartStartsWith(part, prefix) ==
    /\ Len(part) >= Len(prefix)
    /\ \A k \in 1..Len(prefix) : part[k] = prefix[k]

is_read_only_bash_command(s, cfg) ==
    IF has_write_pattern(s) THEN FALSE
    ELSE LET command_parts == SplitChain(s, 1, << >>, << >>)
         IN  \A k \in 1..Len(command_parts) :
                 LET part == Strip(command_parts[k])
                 IN  part = << >> \/
                     \E prefix \in cfg.read_only_bash_commands : PartStartsWith(part, prefix)

-----------------------------------------------------------------------------
(* hooks/shared_state.py: the files under .claude/state                    *)

\* .claude/state/daic-mode.json as open() and json.load find it
DaicObject(m) == [kind |-> "object", mode |-> m]

DaicFile(k) == [kind |-> k, mode |-> Absent]

\* the exception classes open() and json.load raise on the file, "" if none
DaicReadError(f) ==
    IF f.kind = "missing" THEN "FileNotFoundError"
    ELSE IF f.kind = "invalid_json" THEN "JSONDecodeError"
    ELSE IF f.kind \in {"unreadable", "unreadable_critical"} THEN "PermissionError"
    ELSE ""

Returned(v, f) == [raised |-> "", critical |-> FALSE, value |-> v, daic |-> f]

Raised(e, crit, f) == [raised |-> e, critical |-> crit, value |-> FALSE, daic |-> f]

\* set_daic_mode(True) writes {"mode": "discussion"}
set_daic_mode(value) ==
    IF value THEN DaicObject(Mode_NO) ELSE DaicObject(Mode_GO)

\* True in discussion mode; the file as the call leaves it
check_daic_mode_bool(f) ==
    IF DaicReadError(f) \in {"FileNotFoundError", "JSONDecodeError"}
    THEN Returned(TRUE, set_daic_mode(TRUE))
    ELSE IF DaicReadError(f) # ""
         \* str(e) holds the path of the file
         THEN Raised(DaicReadError(f), f.kind = "unreadable_critical", f)
    ELSE IF f.kind = "not_object"
         \* data.get on a list, a string, a number or null
         THEN Raised("AttributeError", FALSE, f)
    ELSE Returned((IF f.mode = Absent THEN Mode_NO ELSE f.mode) = Mode_NO, f)

\* toggle_daic_mode
toggle_daic_mode(f) ==
    IF DaicReadError(f) \in {"FileNotFoundError", "JSONDecodeError"}
    THEN Returned(TRUE, DaicObject(Mode_GO))
    ELSE IF DaicReadError(f) # ""
         THEN Raised(DaicReadError(f), f.kind = "unreadable_critical", f)
    ELSE IF f.kind = "not_object" THEN Raised("AttributeError", FALSE, f)
    ELSE LET current_mode == IF f.mode = Absent THEN Mode_NO ELSE f.mode
         IN  Returned(TRUE, DaicObject(IF current_mode = Mode_NO THEN Mode_GO ELSE Mode_NO))

\* the methods class EnhancedSharedState defines
EnhancedSharedStateMethods ==
    {"register_repository", "get_repositories", "get_active_repositories",
     "detect_workspace_repositories", "setup_workspace_awareness",
     "get_workspace_context", "should_include_file", "get_workspace_agents",
     "check_daic_mode_bool", "check_daic_mode", "set_daic_mode",
     "toggle_daic_mode", "get_current_task", "update_current_task",
     "add_service_to_task", "create_cross_repo_task", "get_workspace_tasks",
     "get_session_start_time", "set_session_start_time", "log_tool_usage",
     "log_command_execution", "log_context_usage", "log_warning", "log_error",
     "log_workflow_event", "get_tool_usage_log", "get_context_usage_log",
     "get_error_log", "get_workflow_events", "get_daic_mode",
     "get_enforcement_state", "get_compaction_metadata",
     "update_compaction_metadata", "save_multi_repo_config"}

\* get_shared_state().<method>(...) for the subagent tracker: looking up an
\* attribute the class does not define raises AttributeError
TrackerCall(method) ==
    [op |-> method,
     raised |-> IF method \in EnhancedSharedStateMethods THEN "" ELSE "AttributeError",
     value |-> FALSE]

is_subagent_active(session_id) == TrackerCall("is_subagent_active")

-----------------------------------------------------------------------------
(* workflow_manager.py: the checks of main                                 *)

\* Path.resolve(): ".." and symbolic links resolved from the project root;
\* "statelink" is a symbolic link to .claude/state
RECURSIVE Resolve(_, _, _)
Resolve(comps, i, stack) ==
    IF i > Len(comps) THEN [outside |-> FALSE, stack |-> stack]
    ELSE IF comps[i] = ".."
         THEN IF stack = << >> THEN [outside |-> TRUE, stack |-> << >>]
              ELSE Resolve(comps, i + 1, SubSeq(stack, 1, Len(stack) - 1))
    ELSE IF comps[i] = "statelink"
         THEN Resolve(comps, i + 1, <<".claude", "state">>)
    ELSE Resolve(comps, i + 1, Append(stack, comps[i]))

\* file_path.resolve().relative_to(state_dir.resolve()) does not raise
UnderStateDir(p) ==
    /\ p.anchor \in {"rel", "abs_in"}
    /\ LET r == Resolve(p.comps, 1, << >>)
       IN  /\ ~ r.outside
           /\ Len(r.stack) >= 2
           /\ r.stack[1] = ".claude"
           /\ r.stack[2] = "state"

\* session_id = input_data.get("session_id") or "default"
SessionOf(req) == IF req.session_id = "" THEN "default" ELSE req.session_id

\* True unless the guard blocks
check_subagent_boundaries(req) ==
    LET r == is_subagent_active(SessionOf(req))
        in_subagent == IF r.raised # "" THEN FALSE ELSE r.value
    IN  IF ~ in_subagent \/ req.tool_name \notin {"Write", "Edit", "MultiEdit"} THEN TRUE
        ELSE IF ~ HasPath(req.file_path) THEN TRUE
        ELSE ~ UnderStateDir(req.file_path)

\* 'daic' in command
ContainsDaic(cmd) == \E i \in 1..Len(cmd) : cmd[i] = "daic"

\* "cd " in command
ContainsCdSpace(cmd) == \E i \in 1..(Len(cmd) - 1) : cmd[i] = "cd" /\ cmd[i + 1] = SP

WMPending == [exit |-> -1, kind |-> "pending", stderr |-> ""]

WMOut(exit, kind, stderr) == [exit |-> exit, kind |-> kind, stderr |-> stderr]

WMDone(f, out) == [daic |-> f, outcome |-> out]

\* except Exception in main: the hook allows the call unless the message
\* holds the word "critical"
HookError(r) ==
    IF r.critical
    THEN WMDone(r.daic, WMOut(1, "hook_error_critical", "Error: Unexpected error"))
    ELSE WMDone(r.daic, WMOut(0, "hook_error_allowed", "Warning: Allowing tool execution"))

\* handle_post_tool_use and the exit code main derives from it
handle_post_tool_use(req, f) ==
    LET r == check_daic_mode_bool(f)
    IN  IF r.raised # "" THEN HookError(r)
        ELSE IF ~ r.value /\ req.tool_name \in {"Edit", "Write", "MultiEdit", "NotebookEdit"}
             THEN WMDone(r.daic, WMOut(2, "daic_reminder", "DAIC Reminder"))
        ELSE IF req.tool_name = "Bash" /\ ContainsCdSpace(req.command)
             THEN WMDone(r.daic, WMOut(2, "cwd_reminder", "CWD"))
        ELSE WMDone(r.daic, WMOut(0, "post_tool_use", ""))

\* enforce_branch_consistency reached the git query and it timed out
BranchWarned(req, task, cfg) ==
    /\ cfg.branch_enforcement
    /\ req.tool_name \in {"Write", "Edit", "MultiEdit"}
    /\ HasPath(req.file_path)
    /\ task.branch # NoBranch
    /\ req.repo.kind # "none"
    /\ req.git.status = "timeout"

\* the branch check of main: exit 2 with the message of the failed check
BranchCheck(req, f, task, cfg) ==
    LET b == enforce_branch_consistency(req, task, cfg)
    IN  IF b = "raise"
        THEN HookError(Raised("FileNotFoundError", FALSE, f))
        ELSE IF b = "wrong_branch"
             THEN WMDone(f, WMOut(2, "branch_enforcement", "Branch Mismatch"))
        ELSE IF b = "not_in_task"
             THEN WMDone(f, WMOut(2, "branch_enforcement", "Service Not in Task"))
        ELSE IF b = "not_in_task_wrong_branch"
             THEN WMDone(f, WMOut(2, "branch_enforcement", "Service Not in Task + Wrong Branch"))
        ELSE IF BranchWarned(req, task, cfg)
             THEN WMDone(f, WMOut(0, "allowed", "Warning: Could not verify branch"))
        ELSE WMDone(f, WMOut(0, "allowed", ""))

\* the checks of main with the branch check moved to the front
PreToolUseChecks_BranchFirst(req, r, task, cfg) ==
    IF BranchCheck(req, r.daic, task, cfg).outcome.exit = 2
    THEN BranchCheck(req, r.daic, task, cfg)
    ELSE IF r.value /\ req.tool_name = "Bash" /\ ContainsDaic(Strip(req.command))
    THEN WMDone(r.daic, WMOut(2, "blocked_daic_command", "DAIC: Command Blocked"))
    ELSE IF /\ r.value
            /\ req.tool_name \in cfg.blocked_tools
            /\ ~ (req.tool_name = "Edit" /\ req.path = "current_task.json")
         THEN WMDone(r.daic, WMOut(2, "blocked_by_daic", "DAIC: Tool Blocked"))
    ELSE IF ~ check_subagent_boundaries(req)
         THEN WMDone(r.daic, WMOut(2, "subagent_boundary", "Subagent Boundary Violation"))
    ELSE WMDone(r.daic, WMOut(0, "allowed", ""))

\* the DAIC block, the subagent boundary check and the branch check, in the
\* order of main
PreToolUseChecks(req, r, task, cfg) ==
    IF r.value /\ req.tool_name = "Bash" /\ ContainsDaic(Strip(req.command))
    THEN WMDone(r.daic, WMOut(2, "blocked_daic_command", "DAIC: Command Blocked"))
    ELSE IF /\ r.value
            /\ req.tool_name \in cfg.blocked_tools
            /\ ~ (req.tool_name = "Edit" /\ req.path = "current_task.json")
         THEN WMDone(r.daic, WMOut(2, "blocked_by_daic", "DAIC: Tool Blocked"))
    ELSE IF ~ check_subagent_boundaries(req)
         THEN WMDone(r.daic, WMOut(2, "subagent_boundary", "Subagent Boundary Violation"))
    ELSE BranchCheck(req, r.daic, task, cfg)

\* main(): the daic-mode file as the run leaves it and what the hook answers
workflow_manager_main(req, f, task, cfg) ==
    IF req.event = "PostToolUse" THEN handle_post_tool_use(req, f)
    ELSE IF req.tool_name = "Bash" /\ is_read_only_bash_command(Strip(req.command), cfg)
         THEN WMDone(f, WMOut(0, "read_only_bash", ""))
    ELSE LET r == check_daic_mode_bool(f)
         IN  IF r.raised # "" THEN HookError(r)
             ELSE PreToolUseChecks(req, r, task, cfg)

-----------------------------------------------------------------------------
(* Inputs and state of the workflow_manager hook                           *)

Sessions == {"abc", "default"}

WMRequest(event, tool, cmd, file_path, path, sid, repo, git) ==
    [event |-> event, tool_name |-> tool, command |-> cmd, file_path |-> file_path,
     path |-> path, session_id |-> sid, repo |-> repo, git |-> git]

NoWMRequest == WMRequest("", "", << >>, NoPath, "", "", NoRepo, NoGit)

WMCommands ==
    { <<"ls">>, <<"npm", SP, "run", SP, "build">>, <<"./deploy.sh">>,
      <<"npm", SP, "ls">>, <<"daic">>, <<"rm", SP, "f">>, <<"ls", SP, ">", "f">>,
      <<"ls", SP, "&&", SP, "./deploy.sh">> }

WMPaths ==
    { [anchor |-> "rel", comps |-> <<"app.py">>],
      [anchor |-> "rel", comps |-> <<".claude", "state", "test.json">>],
      [anchor |-> "rel", comps |-> <<"statelink", "test.json">>],
      [anchor |-> "abs_out", comps |-> <<".claude", "state", "test.json">>] }

\* daic-mode.json as a run can find it
DaicFiles ==
    { DaicFile(k) : k \in {"missing", "invalid_json", "unreadable",
                           "unreadable_critical", "not_object"} }
    \cup { DaicObject(m) : m \in {Mode_NO, Mode_GO, "bogus", Absent} }

\* current_task.json as get_task_state returns it
WMTask == [branch |-> "feature/x", submodules |-> {"svcA"}]

\* daic-cooldown.json: absent, or the time at which the window closes
NoCooldown == [present |-> FALSE, expires_at |-> 0]

Cooldown(t) == [present |-> TRUE, expires_at |-> t]

\* datetime.now() < expires_at
CooldownActive(w) == w.cooldown.present /\ w.now < w.cooldown.expires_at

NoCall == [op |-> "", raised |-> "", value |-> FALSE]

\* nothing has run yet
WMIdle ==
    [op |-> "none", request |-> NoWMRequest, outcome |-> WMPending,
     daic_before |-> DaicFile("missing"), daic_after |-> DaicFile("missing"),
     session |-> "", call |-> NoCall]

\* a file of .claude/state as it is on disk: absent, empty (opened for
\* writing and nothing flushed yet), a strict prefix of the JSON text of a
\* document, or the whole text
MissingFile == [kind |-> "missing", doc |-> Absent]

EmptyFile == [kind |-> "empty", doc |-> Absent]

Truncated(d) == [kind |-> "truncated", doc |-> d]

Complete(d) == [kind |-> "complete", doc |-> d]

\* no write is under way and none has been made
NoWriter ==
    [pc |-> "idle", file |-> "", op |-> "", old |-> MissingFile, new |-> Absent]

\* state persistence is not part of the run
DiskAtRest == [daic |-> MissingFile, task |-> MissingFile, writer |-> NoWriter]

\* the workflow_manager hook is not part of the run
WMAtRest ==
    /\ wm = [daic |-> DaicObject(Mode_NO), cooldown |-> NoCooldown, now |-> 0, task |-> WMTask]
    /\ delegations = [s \in Sessions |-> 0]
    /\ lingering = { }
    /\ wm_last = WMIdle
    /\ disk = DiskAtRest

-----------------------------------------------------------------------------
(* The gate as a state machine: every action is one run of the hook        *)

\* bookkeeping of a run of consecutive handled plan-mode entries: how many
\* (counted up to MaxEntries), the plan and the mode before the first, whether
\* the first found no stash counted by an earlier entry, how often an entry
\* moved the plan into the stash, and whether an exit ended the run
NoRun ==
    [n |-> 0, plan |-> << >>, mode |-> "", fresh |-> TRUE, stashes |-> 0, exited |-> FALSE]

Stashed(s, t) == IF t.stashed # s.stashed THEN 1 ELSE 0

NextRun(r, s, t, out) ==
    IF out.kind = "plan_entered"
    THEN IF r.n = 0 \/ r.exited
         THEN [n |-> 1, plan |-> s.active, mode |-> s.mode,
               fresh |-> s.plan_stashed_count = 0, stashes |-> Stashed(s, t),
               exited |-> FALSE]
         ELSE [r EXCEPT !.n = IF @ < MaxEntries THEN @ + 1 ELSE @,
                        !.stashes = @ + Stashed(s, t)]
    ELSE IF out.kind = "plan_exited" /\ r.n > 0 /\ ~ r.exited
         THEN [r EXCEPT !.exited = TRUE]
    ELSE NoRun

\* one run of the hook on request'
Run ==
    \E r \in {Enforce(request', state, config)} :
        /\ state' = r.state
        /\ outcome' = r.outcome
        /\ before' = state
        /\ run' = NextRun(run, state, r.state, r.outcome)
        /\ UNCHANGED <<config, wm_branch, classifyVars, wmVars>>

EnterPlanMode ==
    /\ request' = Request(CCTools_PLAN, << >>, NoPath, << >>, FALSE, NoRepo, NoGit)
    /\ Run

ExitPlanMode ==
    /\ request' = Request(CCTools_EXITPLANMODE, << >>, NoPath, << >>, FALSE, NoRepo, NoGit)
    /\ Run

TodoWrite ==
    /\ \E todos \in TodoLists :
           request' = Request("TodoWrite", << >>, NoPath, todos, FALSE, NoRepo, NoGit)
    /\ Run

\* tool_input of a Bash request may carry a file_path beside the command
Bash ==
    /\ \E cmd \in CoreCmds,
          p \in {NoPath, [anchor |-> "rel", comps |-> <<"sessions", "sessions-state.json">>]} :
           request' = Request("Bash", cmd, p, << >>, FALSE, NoRepo, NoGit)
    /\ Run

FileTool ==
    /\ \E tool \in {"Write", "Read"}, p \in CorePaths, b \in {"feature/x", "feature/y"} :
           request' = Request(tool, << >>, p, << >>, FALSE, RootRepo,
                              [status |-> "ok", branch |-> b])
    /\ Run

OtherTool ==
    /\ request' = Request("Task", << >>, NoPath, << >>, FALSE, NoRepo, NoGit)
    /\ Run

\* the hook run with a CI indicator in the environment
CIRun ==
    /\ \E tool \in {CCTools_PLAN, CCTools_EXITPLANMODE, "TodoWrite", "Write", "Bash"} :
           request' = Request(tool,
                              IF tool = "Bash" THEN <<"rm", SP, "f">> ELSE << >>,
                              IF tool = "Write"
                              THEN [anchor |-> "rel", comps |-> <<"app.py">>] ELSE NoPath,
                              IF tool = "TodoWrite"
                              THEN <<[content |-> "B", status |-> "pending"]>> ELSE << >>,
                              TRUE, NoRepo, NoGit)
    /\ Run

\* the operator's trigger phrase: Discussion -> Implementation
UserTrigger ==
    /\ state.mode = Mode_NO
    /\ state' = [state EXCEPT !.mode = Mode_GO]
    /\ request' = NoRequest
    /\ outcome' = Pending
    /\ before' = state
    /\ run' = NoRun
    /\ UNCHANGED <<config, wm_branch, classifyVars, wmVars>>

StateDoc(m, act, st, pm, b, br) ==
    [mode |-> m, active |-> act, stashed |-> st, plan_prev_mode |-> pm,
     plan_stashed_count |-> 0, bypass_mode |-> b, branch |-> br, submodules |-> {"svcA"}]

\* a stash left by another workflow
OldStash == <<[content |-> "B", status |-> "pending"]>>

\* the document as a session finds it on disk: no active plan; metadata is a
\* free-form dictionary, so a plan-mode document may carry a plan_prev_mode
\* that names no mode
InitStates ==
    { StateDoc(m, << >>, st, pm, FALSE, "feature/x") :
        m \in Modes, st \in {<< >>, OldStash}, pm \in {Absent, "bogus"} }
    \cup { StateDoc(m, << >>, << >>, Absent, TRUE, "feature/x") : m \in Modes }

Init ==
    /\ state \in { s \in InitStates : s.plan_prev_mode = Absent \/ s.mode = Mode_PLAN }
    /\ config = DefaultConfig
    /\ request = NoRequest
    /\ outcome = Pending
    /\ before = state
    /\ wm_branch = "pending"
    /\ run = NoRun
    /\ command = << >>
    /\ verdict = "none"
    /\ WMAtRest

Next ==
    \/ EnterPlanMode
    \/ ExitPlanMode
    \/ TodoWrite
    \/ Bash
    \/ FileTool
    \/ OtherTool
    \/ CIRun
    \/ UserTrigger

Spec == Init /\ [][Next]_vars

-----------------------------------------------------------------------------
(* One decision: state and request are drawn at Init, Handle runs the hook *)
(* on them, CheckBranch asks workflow_manager's branch guard               *)

OneStates ==
    { StateDoc(m, << >>, << >>, Absent, b, br) :
        m \in Modes, b \in BOOLEAN, br \in {NoBranch, "feature/x"} }

BashRequests ==
    { Request("Bash", cmd, NoPath, << >>, FALSE, NoRepo, NoGit) : cmd \in GateCmdLines }

FileRequests ==
    { Request(tool, << >>, p, << >>, FALSE, NoRepo, NoGit) : tool \in PathTools, p \in AllPaths }
    \cup { Request(tool, << >>, p, << >>, FALSE, ri[1], ri[2]) :
             tool \in PathTools, p \in CorePaths, ri \in RepoInputs }

InitOne ==
    /\ state \in OneStates
    /\ config = DefaultConfig
    /\ request \in BashRequests \cup FileRequests
    /\ outcome = Pending
    /\ before = state
    /\ wm_branch = "pending"
    /\ run = NoRun
    /\ command = << >>
    /\ verdict = "none"
    /\ WMAtRest

Handle ==
    /\ outcome = Pending
    /\ \E r \in {Enforce(request, state, config)} :
           /\ state' = r.state
           /\ outcome' = r.outcome
    /\ UNCHANGED <<config, request, before, wm_branch, run, classifyVars, wmVars>>

CheckBranch ==
    /\ outcome # Pending
    /\ HasPath(request.file_path)
    /\ wm_branch = "pending"
    /\ run = NoRun
    /\ wm_branch' = enforce_branch_consistency(request, before, config)
    /\ UNCHANGED <<config, state, request, outcome, before, run, classifyVars, wmVars>>

NextOne == Handle \/ CheckBranch

SpecOne == InitOne /\ [][NextOne]_vars

-----------------------------------------------------------------------------
(* Classifier check: the command line is drawn at Init, Classify applies   *)
(* is_bash_read_only to it                                                 *)

ClassifyAtoms == {SP, ">", "&", "|", "2", "cat", "rm", "f"}

CmdLines == SeqsUpTo(ClassifyAtoms, MaxCmdLen)

\* chains of whole commands joined by |, && or ||
ChainSegments ==
    { <<"cat", SP, "f">>, <<"rm", SP, "f">>,
      <<"cat", SP, "f", SP, "2", ">", "&", "2">>,
      <<"cat", SP, "f", SP, ">", SP, "f">> }

Joiners == { <<"|">>, <<"&", "&">>, <<"|", "|">>, <<SP, "|", SP>>, <<SP, "&", "&", SP>> }

ChainLines ==
    { a \o j \o b : a \in ChainSegments, j \in Joiners, b \in ChainSegments }
    \cup { a \o j \o b \o k \o c :
             a \in ChainSegments, j \in Joiners, b \in ChainSegments,
             k \in Joiners, c \in ChainSegments }

\* the idioms check_command_arguments looks for, as whole lines: sed and
\* gsed editing in place, awk redirecting its output, find deleting or
\* running rm, xargs running rm or sed -i
MutationIdioms ==
    { <<"sed", SP, "-i", SP, "s/a/b/", SP, "f">>,
      <<"sed", SP, "-i.bak", SP, "s/a/b/", SP, "f">>,
      <<"sed", SP, "--in-place", SP, "s/a/b/", SP, "f">>,
      <<"sed", SP, "--in-place=.bak", SP, "s/a/b/", SP, "f">>,
      <<"gsed", SP, "-i", SP, "s/a/b/", SP, "f">>,
      <<"cat", SP, "f", SP, "|", SP, "sed", SP, "-n", SP, "-i", SP, "s/a/b/", SP, "f">>,
      <<"awk", SP, SQ, "{", "print", SP, ">", SP, DQ, "o", DQ, "}", SQ, SP, "f">>,
      <<"awk", SP, SQ, "{", "print", SP, ">", DQ, "o", DQ, "}", SQ, SP, "f">>,
      <<"awk", SP, SQ, "{", "print", SP, "$1", ">", DQ, "o", DQ, "}", SQ, SP, "f">>,
      <<"gawk", SP, SQ, "{", "printf", SP, ">", ">", SP, DQ, "o", DQ, "}", SQ, SP, "f">>,
      <<"find", SP, ".", SP, "-delete">>,
      <<"find", SP, ".", SP, "-exec", SP, "rm", SP, "{}", SP, "+">>,
      <<"find", SP, ".", SP, "-execdir", SP, "rm", SP, "{}", SP, "+">>,
      <<"cat", SP, "f", SP, "|", SP, "xargs", SP, "rm">>,
      <<"cat", SP, "f", SP, "|", SP, "xargs", SP, "sed", SP, "-i", SP, "s/a/b/">> }

\* the same commands without the idiom, and pipelines of cat, grep and sort
ReadOnlyPipelines ==
    { <<"cat", SP, "f">>,
      <<"grep", SP, "x", SP, "f">>,
      <<"cat", SP, "f", SP, "|", SP, "grep", SP, "x", SP, "|", SP, "sort">>,
      <<"sed", SP, "-n", SP, "s/a/b/", SP, "f">>,
      <<"awk", SP, SQ, "{", "print", SP, "$1", "}", SQ, SP, "f">>,
      <<"find", SP, ".", SP, "-exec", SP, "cat", SP, "{}", SP, "+">> }

\* find . -exec <program> {} + and the same with -execdir, for programs
\* that write (rm, sed -i), that only read (cat, sed -n) and that are unknown
FindExecPrograms ==
    { <<"rm", SP, "{}">>,
      <<"cat", SP, "{}">>,
      <<"sed", SP, "-i", SP, "s/a/b/", SP, "{}">>,
      <<"sed", SP, "-n", SP, "s/a/b/", SP, "{}">>,
      <<"foo", SP, "{}">> }

FindExecLines ==
    { <<"find", SP, ".", SP, e, SP>> \o p \o <<SP, "+">> :
        e \in {"-exec", "-execdir"}, p \in FindExecPrograms }

\* the backquote character, an ordinary character to the tokenizer
BQ == "<backquote>"

\* rm sequenced after cat by an operator the segment split does not know
\* (";", "&"), or nested in a command substitution
SequencedLines ==
    { <<"cat", SP, "f", ";", SP, "rm", SP, "f">>,
      <<"cat", SP, "f", SP, ";", SP, "rm", SP, "f">>,
      <<"cat", SP, "f", SP, "&", SP, "rm", SP, "f">>,
      <<"cat", SP, "$(", "rm", SP, "f", ")">>,
      <<"cat", SP, BQ, "rm", SP, "f", BQ>> }

\* lines for the extra-safe policy: a command name of neither list ("foo"),
\* an unclosed quotation, and the names the segment loop judges before it
\* consults the lists (cd, python)
PolicyLines ==
    { <<"foo">>,
      <<"foo", SP, "f">>,
      <<"foo", SP, "|", SP, "cat", SP, "f">>,
      <<"cat", SP, "f", SP, "|", SP, "foo">>,
      <<"cat", SP, SQ, "f">>,
      <<"cat", SP, DQ, "f">>,
      <<"foo", SP, SQ, "f">>,
      <<"cat", SP, "f", SP, "|", SP, "cat", SP, SQ, "f">>,
      <<"cat", SP, SQ, "f", SQ>>,
      <<"cd", SP, "f">>,
      <<"cd", SP, SQ, "f">>,
      <<"python", SP, "-c", SP, "f">>,
      <<"python3", SP, "-m", SP, "f">>,
      <<"python", SP, "f">>,
      <<"xargs", SP, "cat">> }

ExtrasafeValues == {"unset", "true", "false"}

VerdictOf(cmd, cfg) == IF is_bash_read_only(cmd, cfg) THEN "readonly" ELSE "mutating"

InitClassify ==
    /\ command \in CmdLines \cup ChainLines \cup MutationIdioms \cup ReadOnlyPipelines \cup PolicyLines
                   \cup FindExecLines \cup SequencedLines
    /\ verdict = "none"
    /\ config \in { [DefaultConfig EXCEPT !.extrasafe = e] : e \in ExtrasafeValues }
    /\ state = StateDoc(Mode_NO, << >>, << >>, Absent, FALSE, NoBranch)
    /\ request = NoRequest
    /\ outcome = Pending
    /\ before = state
    /\ wm_branch = "pending"
    /\ run = NoRun
    /\ WMAtRest

Classify ==
    /\ verdict = "none"
    /\ verdict' = VerdictOf(command, config)
    /\ UNCHANGED <<command, config, gateVars, wmVars>>

NextClassify == Classify

SpecClassify == InitClassify /\ [][NextClassify]_vars

-----------------------------------------------------------------------------
(* The workflow_manager hook as a state machine: every action is one run   *)
(* of the hook, one call of the shared state, or one step of the           *)
(* environment; wm_last describes the step just taken                      *)

Step(op) == [WMIdle EXCEPT !.op = op, !.daic_before = wm.daic]

\* a run of main on req: the files as it leaves them, and its result
RunMain(req) ==
    \E r \in {workflow_manager_main(req, wm.daic, wm.task, WMConfig)} :
        /\ wm' = [wm EXCEPT !.daic = r.daic]
        /\ wm_last' = [Step("main") EXCEPT !.request = req, !.outcome = r.outcome,
                                           !.daic_after = r.daic, !.session = SessionOf(req)]

\* what a run of the hook leaves alone
Settle == UNCHANGED <<delegations, lingering, config, gateVars, classifyVars, disk>>

WMBash ==
    \E cmd \in WMCommands :
        /\ RunMain(WMRequest("PreToolUse", "Bash", cmd, NoPath, "", "", NoRepo, NoGit))
        /\ Settle

WMFileTool ==
    \E tool \in {"Edit", "Write", "Read"}, p \in WMPaths, sid \in {"abc", ""} :
        /\ RunMain(WMRequest("PreToolUse", tool, << >>, p, "", sid, NoRepo, NoGit))
        /\ Settle

\* a file edit inside a git repository
WMRepoEdit ==
    \E repo \in {RootRepo, [kind |-> "inside", name |-> "svcB"]},
       git \in { g \in GitResults : g.branch # "" \/ g.status # "ok" } :
        /\ RunMain(WMRequest("PreToolUse", "Edit", << >>,
                                    [anchor |-> "rel", comps |-> <<"app.py">>],
                                    "", "abc", repo, git))
        /\ Settle

\* task selection: an Edit whose tool_input names current_task.json in "path"
WMTaskSelection ==
    \E p \in { q \in WMPaths : q.anchor # "abs_out" /\ Len(q.comps) # 2 },
       repo \in {NoRepo, RootRepo} :
        /\ RunMain(WMRequest("PreToolUse", "Edit", << >>, p, "current_task.json", "abc",
                                    repo, IF repo = NoRepo THEN NoGit
                                          ELSE [status |-> "ok", branch |-> "feature/y"]))
        /\ Settle

WMOtherTool ==
    \E tool \in {"Task", "NotebookEdit"} :
        /\ RunMain(WMRequest("PreToolUse", tool, << >>, NoPath, "", "", NoRepo, NoGit))
        /\ Settle

\* the hook runs after a tool call
WMPostToolUse ==
    \E req \in { WMRequest("PostToolUse", "Edit", << >>,
                            [anchor |-> "rel", comps |-> <<"app.py">>], "", "", NoRepo, NoGit),
                  WMRequest("PostToolUse", "Bash", <<"cd", SP, "src">>, NoPath, "", "",
                            NoRepo, NoGit),
                  WMRequest("PostToolUse", "Task", << >>, NoPath, "", "", NoRepo, NoGit) } :
        /\ RunMain(req)
        /\ Settle

\* the daic command: toggle_daic_mode
DaicToggle ==
    /\ \E r \in {toggle_daic_mode(wm.daic)} :
           /\ wm' = [wm EXCEPT !.daic = r.daic]
           /\ wm_last' = [Step("toggle") EXCEPT !.daic_after = r.daic,
                                                !.call = [op |-> "toggle_daic_mode",
                                                          raised |-> r.raised, value |-> FALSE]]
    /\ UNCHANGED <<delegations, lingering, config, gateVars, classifyVars, disk>>

\* a trigger phrase in the user's message switches to implementation mode and
\* opens a cooldown window
TriggerPhrase ==
    /\ wm.now < MaxClock
    /\ \E t \in (wm.now + 1)..MaxClock :
           wm' = [wm EXCEPT !.daic = set_daic_mode(FALSE), !.cooldown = Cooldown(t)]
    /\ wm_last' = Step("trigger")
    /\ UNCHANGED <<delegations, lingering, config, gateVars, classifyVars, disk>>

\* time passes
Tick ==
    /\ wm.now < MaxClock
    /\ wm' = [wm EXCEPT !.now = wm.now + 1]
    /\ wm_last' = Step("tick")
    /\ UNCHANGED <<delegations, lingering, config, gateVars, classifyVars, disk>>

Tracked(method, s) ==
    [Step("tracker") EXCEPT !.session = s, !.call = TrackerCall(method)]

\* a delegation begins: task_transcript_link calls enter_subagent and
\* swallows whatever it raises
EnterSubagent ==
    \E s \in Sessions :
        /\ delegations[s] < MaxDepth
        /\ delegations' = [delegations EXCEPT ![s] = delegations[s] + 1]
        /\ lingering' = lingering \ {s}
        /\ wm_last' = Tracked("enter_subagent", s)
        /\ UNCHANGED <<wm, config, gateVars, classifyVars, disk>>

\* a delegation ends: exit_subagent
ExitSubagent ==
    \E s \in Sessions :
        /\ delegations[s] > 0
        /\ delegations' = [delegations EXCEPT ![s] = delegations[s] - 1]
        /\ lingering' = IF delegations[s] = 1 THEN lingering \cup {s} ELSE lingering
        /\ wm_last' = Tracked("exit_subagent", s)
        /\ UNCHANGED <<wm, config, gateVars, classifyVars, disk>>

\* session start clears the marker: clear_subagent_state
ClearSubagent ==
    \E s \in Sessions :
        /\ delegations' = [delegations EXCEPT ![s] = 0]
        /\ lingering' = lingering \ {s}
        /\ wm_last' = Tracked("clear_subagent_state", s)
        /\ UNCHANGED <<wm, config, gateVars, classifyVars, disk>>

\* is_subagent_active(s)
QueryActive ==
    \E s \in Sessions :
        /\ wm_last' = [Tracked("is_subagent_active", s) EXCEPT !.call = is_subagent_active(s)]
        /\ UNCHANGED <<wm, delegations, lingering, config, gateVars, classifyVars, disk>>

InitWM ==
    /\ wm \in { [daic |-> f, cooldown |-> NoCooldown, now |-> 0, task |-> WMTask] : f \in DaicFiles }
    /\ delegations = [s \in Sessions |-> 0]
    /\ lingering = { }
    /\ wm_last = WMIdle
    /\ disk = DiskAtRest
    /\ config = DefaultConfig
    /\ state = StateDoc(Mode_NO, << >>, << >>, Absent, FALSE, NoBranch)
    /\ request = NoRequest
    /\ outcome = Pending
    /\ before = state
    /\ wm_branch = "pending"
    /\ run = NoRun
    /\ command = << >>
    /\ verdict = "none"

NextWM ==
    \/ WMBash
    \/ WMFileTool
    \/ WMRepoEdit
    \/ WMTaskSelection
    \/ WMOtherTool
    \/ WMPostToolUse
    \/ DaicToggle
    \/ TriggerPhrase
    \/ Tick
    \/ EnterSubagent
    \/ ExitSubagent
    \/ ClearSubagent
    \/ QueryActive

SpecWM == InitWM /\ [][NextWM]_vars

-----------------------------------------------------------------------------
(* State persistence of hooks/shared_state.py as a state machine.  Every   *)
(* writer is                                                                *)
(*     with open(path, 'w') as f: json.dump(document, f, indent=2)         *)
(* open() creates or truncates the file, json.dump passes the text to the  *)
(* buffered file in pieces, and close() flushes what is left.  The process *)
(* can die between any two of these steps.                                 *)

\* what open() and json.load find in daic-mode.json
DaicAsRead(c) ==
    IF c.kind = "missing" THEN DaicFile("missing")
    ELSE IF c.kind = "complete" THEN c.doc
    ELSE DaicFile("invalid_json")

\* the document get_current_task returns for a missing or undecodable file
DefaultTask == [task |-> Absent, branch |-> Absent, services |-> << >>]

get_current_task(c) == IF c.kind = "complete" THEN c.doc ELSE DefaultTask

\* the state document update_current_task writes for task
update_current_task(task) ==
    [task |-> task.task, branch |-> task.branch, services |-> task.services]

\* add_service_to_task: the document is written only when the service is new
add_service_to_task(c, service) ==
    LET st == get_current_task(c)
    IN  IF \E k \in 1..Len(st.services) : st.services[k] = service
        THEN [write |-> FALSE, state |-> st]
        ELSE [write |-> TRUE, state |-> [st EXCEPT !.services = Append(@, service)]]

\* the tasks the task-selection protocol stores
TaskInputs ==
    { [task |-> "t1", branch |-> "feature/x", services |-> << >>],
      [task |-> "t2", branch |-> "feature/y", services |-> <<"svcA">>] }

WriterAtRest == disk.writer.pc \in {"idle", "closed", "crashed"}

\* open(path, 'w'): the file exists and is empty from here on
OpenForWrite(file, op, doc) ==
    /\ WriterAtRest
    /\ disk' = [disk EXCEPT ![file] = EmptyFile,
                            !.writer = [pc |-> "opened", file |-> file, op |-> op,
                                        old |-> disk[file], new |-> doc]]

\* what a step of a writer leaves alone
PersistSettle ==
    UNCHANGED <<wm, delegations, lingering, wm_last, config, gateVars, classifyVars>>

SetDaicMode ==
    \E value \in BOOLEAN :
        /\ OpenForWrite("daic", "set_daic_mode", set_daic_mode(value))
        /\ PersistSettle

\* toggle_daic_mode reads the file, then writes the other mode
ToggleDaicMode ==
    \E r \in {toggle_daic_mode(DaicAsRead(disk.daic))} :
        /\ OpenForWrite("daic", "toggle_daic_mode", r.daic)
        /\ PersistSettle

UpdateCurrentTask ==
    \E task \in TaskInputs :
        /\ OpenForWrite("task", "update_current_task", update_current_task(task))
        /\ PersistSettle

AddServiceToTask ==
    \E service \in RepoNames :
        \E r \in {add_service_to_task(disk.task, service)} :
            /\ r.write
            /\ OpenForWrite("task", "add_service_to_task", r.state)
            /\ PersistSettle

\* the buffer is flushed before the whole text has been passed
Flush ==
    /\ disk.writer.pc = "opened"
    /\ disk' = [disk EXCEPT ![disk.writer.file] = Truncated(disk.writer.new),
                            !.writer.pc = "partial"]
    /\ PersistSettle

\* the with block ends: the rest of the text is flushed and the file closed
Close ==
    /\ disk.writer.pc \in {"opened", "partial"}
    /\ disk' = [disk EXCEPT ![disk.writer.file] = Complete(disk.writer.new),
                            !.writer.pc = "closed"]
    /\ PersistSettle

\* the process dies during the write
Crash ==
    /\ disk.writer.pc \in {"opened", "partial"}
    /\ disk' = [disk EXCEPT !.writer.pc = "crashed"]
    /\ PersistSettle

InitPersist ==
    /\ disk \in { [daic |-> d, task |-> MissingFile, writer |-> NoWriter] :
                    d \in {MissingFile, Complete(DaicObject(Mode_NO)),
                           Complete(DaicObject(Mode_GO))} }
    /\ wm = [daic |-> DaicObject(Mode_NO), cooldown |-> NoCooldown, now |-> 0, task |-> WMTask]
    /\ delegations = [s \in Sessions |-> 0]
    /\ lingering = { }
    /\ wm_last = WMIdle
    /\ config = DefaultConfig
    /\ state = StateDoc(Mode_NO, << >>, << >>, Absent, FALSE, NoBranch)
    /\ request = NoRequest
    /\ outcome = Pending
    /\ before = state
    /\ wm_branch = "pending"
    /\ run = NoRun
    /\ command = << >>
    /\ verdict = "none"

NextPersist ==
    \/ SetDaicMode
    \/ ToggleDaicMode
    \/ UpdateCurrentTask
    \/ AddServiceToTask
    \/ Flush
    \/ Close
    \/ Crash

SpecPersist == InitPersist /\ [][NextPersist]_vars

-----------------------------------------------------------------------------
(* Properties of the classifier (checked under SpecClassify)               *)

\* an output or descriptor redirection with its target: ">" directly before a
\* file name, before a space and a file name, or before "&" and a descriptor
\* (this covers >f, > f, >>f, 2>f, &>f and 2>&2)
RedirectsAt(cmd, i) ==
    /\ cmd[i] = ">"
    /\ \/ At(cmd, i + 1, "f")
       \/ At(cmd, i + 1, SP) /\ At(cmd, i + 2, "f")
       \/ At(cmd, i + 1, "&") /\ At(cmd, i + 2, "2")

HasOutputRedirect(cmd) ==
    /\ cmd # << >>
    /\ cmd[1] \in {"cat", "rm"}
    /\ \E i \in 1..Len(cmd) : RedirectsAt(cmd, i)

\* C1: every command line that contains an output or file-descriptor
\* redirection, with or without whitespace around the operator, is
\* classified Mutating, whatever the base command is (stated for single
\* commands under the default configuration)
C1_RedirectionIsMutating ==
    ( /\ verdict # "none"
      /\ config = DefaultConfig
      /\ \A i \in 1..Len(command) : command[i] \notin {"|", "&"}
      /\ HasOutputRedirect(command) )
    => verdict = "mutating"

EverySegmentReadOnly(cmd, cfg) ==
    LET segments == SplitSegments(cmd)
    IN  \A k \in 1..Len(segments) : is_bash_read_only(segments[k], cfg)

\* C2: a line of segments joined by |, && or || is ReadOnly exactly when
\* every segment taken alone is ReadOnly (stated for the default
\* configuration)
C2_ChainReadOnlyIffEverySegment ==
    (verdict # "none" /\ config = DefaultConfig /\ command \in ChainLines) =>
        (verdict = "readonly" <=> EverySegmentReadOnly(command, config))

\* C17: the command-specific mutation idioms (sed/gsed with -i or
\* --in-place, awk redirecting its output to a file, find with -delete or
\* -exec rm, xargs naming rm or sed -i) classify Mutating, and cat, grep and
\* pipelines of cat/grep/sort classify ReadOnly, whatever the extra-safe
\* policy
C17_IdiomsClassified ==
    verdict # "none" =>
        /\ (command \in MutationIdioms => verdict = "mutating")
        /\ (command \in ReadOnlyPipelines => verdict = "readonly")

\* the extra-safe policy as the configuration file gives it
PolicyActive == config.extrasafe \in {"unset", "true"}

\* the segments of the line that hold a command
CommandSegments(cmd) ==
    LET segments == SplitSegments(Strip(cmd))
    IN  { Strip(segments[k]) : k \in 1..Len(segments) } \ { << >> }

Untokenizable(segment) == ~ ShlexSplit(segment).ok

\* the command name of a segment, "" when it has none
CommandName(segment) ==
    LET lexed == ShlexSplit(segment)
    IN  IF lexed.ok /\ lexed.parts # << >> THEN Word(LowerTok(lexed.parts[1])) ELSE ""

\* the segment's command name is in neither the known-mutating nor the
\* known-read-only list
InNeitherList(segment) ==
    /\ CommandName(segment) # ""
    /\ CommandName(segment) \notin WRITE_FIRST(config) \cup READONLY_FIRST(config)

\* names the segment loop judges by rules of their own before the lists
OwnRuleNames == {"cd", "python", "python3"}

HasUntokenizableSegment == \E seg \in CommandSegments(command) : Untokenizable(seg)

\* C20 as the specification words it: with the policy active (unset counts
\* as active) a line holding a segment whose command name is in neither list,
\* or a segment that cannot be tokenized, is Mutating; such a line is
\* ReadOnly only with the policy disabled
C20_NeitherListIsMutating ==
    verdict # "none" =>
        /\ (PolicyActive /\ (\E seg \in CommandSegments(command) : InNeitherList(seg)))
              => verdict = "mutating"
        /\ (PolicyActive /\ HasUntokenizableSegment) => verdict = "mutating"
        /\ (verdict = "readonly" /\
              (HasUntokenizableSegment \/ \E seg \in CommandSegments(command) : InNeitherList(seg)))
              => config.extrasafe = "false"

UnknownCommand(segment) ==
    InNeitherList(segment) /\ CommandName(segment) \notin OwnRuleNames

HasUnknownCommand == \E seg \in CommandSegments(command) : UnknownCommand(seg)

\* C20 (amended): the same for command names other than cd, python and
\* python3, which the segment loop judges by rules of their own; and with
\* the policy disabled a line that is one such segment, without redirection
\* and not xargs, is ReadOnly
C20_UnknownIsMutatingWhenExtraSafe ==
    verdict # "none" =>
        /\ (PolicyActive /\ (HasUnknownCommand \/ HasUntokenizableSegment))
              => verdict = "mutating"
        /\ (verdict = "readonly" /\ (HasUnknownCommand \/ HasUntokenizableSegment))
              => config.extrasafe = "false"
        /\ ( /\ config.extrasafe = "false"
             /\ ~ REDIR(Strip(command))
             /\ CommandSegments(command) = { Strip(command) }
             /\ \/ Untokenizable(Strip(command))
                \/ UnknownCommand(Strip(command)) /\ CommandName(Strip(command)) # "xargs" )
              => verdict = "readonly"

\* an unclosed quotation classified under the unset (default) policy
C20_Witness ==
    /\ verdict = "mutating"
    /\ config.extrasafe = "unset"
    /\ command = <<"cat", SP, SQ, "f">>

\* the program a line of FindExecLines invokes, with its arguments
InvokedProgram(cmd) == SubSeq(cmd, 7, Len(cmd) - 2)

\* C23: a find segment with -exec or -execdir classifies Mutating whenever
\* the program it invokes, with its arguments, would classify Mutating as a
\* segment of its own, and ReadOnly only when that program is read-only
C23_FindExecFollowsInvokedProgram ==
    (verdict # "none" /\ command \in FindExecLines) =>
        (verdict = "mutating" <=> ~ is_bash_read_only(InvokedProgram(command), config))

\* C26: the classifier is fail-closed for command sequencing it does not
\* split on: a line in which rm is sequenced after a read-only command by
\* ";" or "&", or is nested in $(...) or backticks, classifies Mutating
C26_UnsplitSequencingIsMutating ==
    (verdict # "none" /\ command \in SequencedLines) => verdict = "mutating"

-----------------------------------------------------------------------------
(* Properties of one decision (checked under SpecOne)                      *)

Handled == outcome # Pending /\ ~ request.ci

PlanningNoBypass == before.mode \in {Mode_NO, Mode_PLAN} /\ ~ before.bypass_mode

\* the file a path names, ".." resolved against the project root
RECURSIVE ResolveFrom(_, _, _)
ResolveFrom(comps, i, stack) ==
    IF i > Len(comps) THEN [escaped |-> FALSE, stack |-> stack]
    ELSE IF comps[i] = ".."
         THEN IF stack = << >> THEN [escaped |-> TRUE, stack |-> << >>]
              ELSE ResolveFrom(comps, i + 1, SubSeq(stack, 1, Len(stack) - 1))
    ELSE ResolveFrom(comps, i + 1, Append(stack, comps[i]))

\* paths that name a file whose place is known: below the project root, or
\* outside it without ".."
KnownTarget(p) ==
    /\ HasPath(p)
    /\ PathName(p) \in {"app.py", "sessions-state.json"}
    /\ p.anchor = "abs_out" => \A k \in 1..Len(p.comps) : p.comps[k] # ".."

InsideWorkArtifactDir(p) ==
    /\ p.anchor \in {"rel", "abs_in"}
    /\ LET r == ResolveFrom(p.comps, 1, << >>)
       IN  ~ r.escaped /\ Len(r.stack) >= 2 /\ r.stack[1] \in AllowedDirs

\* C3: in Discussion or Plan mode without bypass, a Write/Edit/MultiEdit whose
\* target is not inside a work-artifact directory of the project is blocked
\* with exit code 2 and the mode's remediation message
C3_OnlyWorkArtifactsWritable ==
    ( /\ Handled
      /\ PlanningNoBypass
      /\ request.tool_name \in {"Write", "Edit", "MultiEdit"}
      /\ KnownTarget(request.file_path)
      /\ ~ InsideWorkArtifactDir(request.file_path) )
    => /\ outcome.exit = 2
       /\ outcome.kind = "tool_blocked_in_mode"
       /\ outcome.mode_name \in {"Discussion", "Plan"}

\* an invocation of the sessions command itself
InternalCommand(cmd) ==
    LET c == Strip(cmd) IN c # << >> /\ c[1] = "sessions"

\* C4: in Discussion or Plan mode without bypass, a Bash request is blocked
\* (exit code 2, write-like command) when its command classifies as Mutating
\* and allowed (exit code 0) when it classifies as ReadOnly; the sessions
\* command itself is left aside
C4_BashFollowsClassifier ==
    ( /\ Handled
      /\ PlanningNoBypass
      /\ request.tool_name = "Bash"
      /\ ~ InternalCommand(request.command) )
    => IF is_bash_read_only(Strip(request.command), config)
       THEN outcome.exit = 0
       ELSE outcome.exit = 2 /\ outcome.kind = "bash_write_like"

TargetsStateFile(p) ==
    /\ p.anchor \in {"rel", "abs_in"}
    /\ p.comps = <<"sessions", "sessions-state.json">>

\* C5: in every mode, a Write/Edit/MultiEdit/NotebookEdit that targets
\* sessions/sessions-state.json is blocked
C5_StateFileProtected ==
    ( /\ Handled
      /\ ~ before.bypass_mode
      /\ request.tool_name \in {"Write", "Edit", "MultiEdit", "NotebookEdit"}
      /\ TargetsStateFile(request.file_path) )
    => outcome.exit = 2

\* a file edit that arrives at the branch guard with a task branch set, in a
\* repository whose branch git reports
BranchGuardApplies ==
    /\ Handled
    /\ before.mode = Mode_GO
    /\ request.tool_name \in {"Write", "Edit", "MultiEdit"}
    /\ HasPath(request.file_path)
    /\ ~ IsStateFile(request.file_path)
    /\ before.branch # NoBranch
    /\ request.repo.kind # "none"
    /\ request.git.status = "ok"

declaredInTask == request.repo.kind = "root" \/ request.repo.name \in before.submodules

branchMatches == request.git.branch = before.branch

\* C10: the branch guard's outcome is fixed by declaredInTask and
\* branchMatches: true/true allows, true/false blocks as WrongBranch,
\* false/true blocks as NotDeclaredInTask, false/false blocks as
\* WrongBranchAndNotDeclared
C10_BranchGuardTable ==
    BranchGuardApplies =>
        IF declaredInTask /\ branchMatches THEN outcome.exit = 0
        ELSE IF declaredInTask THEN outcome.exit = 2 /\ outcome.kind = "wrong_branch"
        ELSE IF branchMatches THEN outcome.exit = 2 /\ outcome.kind = "not_in_task"
        ELSE outcome.exit = 2 /\ outcome.kind = "not_in_task_wrong_branch"

\* a file edit that arrives at the branch guard with a task branch set
BranchGuardReached ==
    /\ Handled
    /\ before.mode = Mode_GO
    /\ config.branch_enforcement
    /\ request.tool_name \in {"Write", "Edit", "MultiEdit"}
    /\ HasPath(request.file_path)
    /\ ~ IsStateFile(request.file_path)
    /\ before.branch # NoBranch

\* the checked-out branch of the owning repository cannot be determined: no
\* git worktree, the query times out, the subprocess fails, or git prints no
\* branch name
BranchUndetermined ==
    \/ request.repo.kind = "none"
    \/ request.git.status \in {"timeout", "oserror"}
    \/ (request.git.status = "ok" /\ request.git.branch = "")

\* C11: when the checked-out branch cannot be determined the branch guard
\* fails open: the call is allowed (with a warning when a repository was
\* found) and is never blocked as a branch mismatch
C11_BranchGuardFailsOpen ==
    (BranchGuardReached /\ BranchUndetermined) =>
        /\ outcome.exit = 0
        /\ (request.repo.kind # "none" => outcome.stderr = "Warning")
        /\ (wm_branch # "pending" => wm_branch = "allow")

\* C15: every block decision of the gate (exit code 2), whatever its cause,
\* emits both a message on stderr and the structured payload (reason,
\* suggested action, current mode, blocked tool) on stdout
C15_EveryBlockIsStructured ==
    (Handled /\ outcome.exit = 2) => (outcome.stderr # "" /\ outcome.structured)

\* the decisions by which the branch guard blocks
BranchBlockKinds == {"wrong_branch", "not_in_task", "not_in_task_wrong_branch"}

\* C21: the branch guard is applied only to the file-mutating tools
\* (Write/Edit/MultiEdit): a request for any other tool that carries a
\* file_path is never blocked for a branch or submodule mismatch, in any mode
C21_BranchGuardOnlyForFileWriters ==
    ( /\ Handled
      /\ HasPath(request.file_path)
      /\ request.tool_name \notin {"Write", "Edit", "MultiEdit"} )
        => /\ outcome.kind \notin BranchBlockKinds
           /\ (wm_branch # "pending" => wm_branch = "allow")

\* the text "sessions " stands somewhere in the line
MentionsSessions(cmd) ==
    \E i \in 1..Len(cmd) : cmd[i] = "sessions" /\ At(cmd, i + 1, SP)

\* a segment of the line runs a command of the known-mutating list
RunsKnownMutating(cmd) ==
    \E seg \in CommandSegments(cmd) : CommandName(seg) \in WRITE_FIRST(config)

\* C25: in Discussion or Plan mode without bypass the exemption for internal
\* state-inspection commands covers only invocations of the sessions API: a
\* Bash line that runs a known-mutating command is blocked even though the
\* text "sessions " appears in it as an argument or a path
C25_MentionOfSessionsNotExempt ==
    ( /\ Handled
      /\ PlanningNoBypass
      /\ request.tool_name = "Bash"
      /\ MentionsSessions(request.command)
      /\ ~ InternalCommand(request.command)
      /\ RunsKnownMutating(request.command) )
    => outcome.exit = 2

-----------------------------------------------------------------------------
(* Properties of the workflow (checked under Spec)                         *)

ContentsOf(todos) == [i \in 1..Len(todos) |-> todos[i].content]

\* the TodoWrite handling is reached: implementation mode, no bypass
TodoGuardRan ==
    /\ Handled
    /\ request.tool_name = "TodoWrite"
    /\ before.mode = Mode_GO
    /\ ~ before.bypass_mode

\* C6: when the TodoWrite guard runs with a non-empty active plan, an incoming
\* list whose ordered contents differ from the active plan's blocks the call
\* (exit code 2), clears the active plan and sets the mode to Discussion; a
\* list with the same ordered contents is accepted and stored
C6_TodoWriteGuard ==
    (TodoGuardRan /\ before.active # << >>) =>
        IF ContentsOf(request.todos) # ContentsOf(before.active)
        THEN outcome.exit = 2 /\ state.active = << >> /\ state.mode = Mode_NO
        ELSE outcome.exit = 0 /\ state.active = request.todos /\ state.mode = before.mode

\* a two-step plan was active and a list of two other contents was rejected
C6_Witness ==
    /\ TodoGuardRan
    /\ Len(before.active) = 2
    /\ Len(request.todos) = 2
    /\ ContentsOf(request.todos) # ContentsOf(before.active)
    /\ outcome.exit = 2
    /\ state.active = << >>

\* C7: whenever the active plan is non-empty, in any mode, a TodoWrite whose
\* ordered contents differ from the active plan's is rejected
C7_DifferingTodoWriteRejected ==
    ( /\ Handled
      /\ ~ before.bypass_mode
      /\ request.tool_name = "TodoWrite"
      /\ before.active # << >>
      /\ ContentsOf(request.todos) # ContentsOf(before.active) )
    => outcome.exit = 2

PlanEntryHandled ==
    Handled /\ request.tool_name = CCTools_PLAN /\ ~ before.bypass_mode

PlanExitHandled ==
    Handled /\ request.tool_name = CCTools_EXITPLANMODE /\ ~ before.bypass_mode

\* C8, as stated: after one or more consecutive plan-mode entries and one
\* exit the active plan is the plan that was active before the first entry,
\* the plan was stashed at most once, and no plan_prev_mode /
\* plan_stashed_count remains
C8_ExitRestoresPlanBeforeFirstEntry ==
    run.exited =>
        /\ state.active = run.plan
        /\ run.stashes <= 1
        /\ state.plan_prev_mode = Absent
        /\ state.plan_stashed_count = 0

\* C8, amended: the same, for runs whose first entry finds no plan stashed by
\* an earlier entry; and an entry after the first leaves the stash, the
\* stash count and the remembered mode alone
C8_PlanEntryIdempotent ==
    /\ (run.exited /\ run.fresh) =>
          /\ state.active = run.plan
          /\ run.stashes <= 1
          /\ state.plan_prev_mode = Absent
          /\ state.plan_stashed_count = 0
    /\ (PlanEntryHandled /\ run.n >= 2 /\ ~ run.exited) =>
          /\ state.stashed = before.stashed
          /\ state.plan_prev_mode = before.plan_prev_mode
          /\ state.plan_stashed_count = before.plan_stashed_count

\* a plan was stashed by the first of several entries and restored by the exit
C8_Witness ==
    /\ run.exited
    /\ run.fresh
    /\ run.n >= 2
    /\ run.plan # << >>
    /\ run.stashes = 1
    /\ state.active = run.plan

\* the remembered mode as the exit restores it
RestoredMode(remembered) ==
    IF remembered \in {Mode_NO, Mode_PLAN} THEN remembered ELSE Mode_NO

\* C9: a plan-mode exit sets the mode to the mode remembered at the first
\* entry, Discussion in place of Implementation and when nothing valid was
\* remembered; the mode right after an exit is never Implementation
C9_PlanExitMode ==
    /\ PlanExitHandled =>
          /\ state.mode = RestoredMode(before.plan_prev_mode)
          /\ state.mode # Mode_GO
    /\ (run.exited /\ run.mode # Mode_PLAN) => state.mode = RestoredMode(run.mode)

\* plan mode was entered from Implementation and the exit led to Discussion
C9_Witness ==
    /\ PlanExitHandled
    /\ run.exited
    /\ run.mode = Mode_GO
    /\ before.plan_prev_mode = Mode_GO
    /\ state.mode = Mode_NO

\* C24: no run of the gate grants Implementation: a run that loaded the
\* state in Discussion or Plan mode (plan entry, plan exit, TodoWrite, Bash,
\* a file tool) leaves the persisted mode Discussion or Plan, so no sequence
\* of runs leads from Discussion or Plan to Implementation
C24_GateNeverGrantsImplementation ==
    (outcome # Pending /\ before.mode \in {Mode_NO, Mode_PLAN}) =>
        state.mode \in {Mode_NO, Mode_PLAN}

\* plan mode entered from Implementation and left again: Discussion
C24_Witness ==
    /\ Handled
    /\ request.tool_name = CCTools_EXITPLANMODE
    /\ before.mode = Mode_PLAN
    /\ before.plan_prev_mode = Mode_GO
    /\ state.mode = Mode_NO

\* the hook ran with a CI indicator in the environment
RanInCI == outcome # Pending /\ request.ci

\* C28: with a CI indicator set the gate allows every tool call (exit code
\* 0) and leaves the persisted workflow state as it was: no mode change on
\* plan entry or exit, no todos stored or cleared, no audit event
C28_CISkipsTheGate ==
    RanInCI =>
        /\ outcome.exit = 0
        /\ state = before
        /\ outcome.events = << >>

\* plan entry in Discussion mode under CI: the mode stays Discussion
C28_Witness ==
    /\ RanInCI
    /\ request.tool_name = CCTools_PLAN
    /\ before.mode = Mode_NO
    /\ ~ before.bypass_mode
    /\ state.mode = Mode_NO

\* a run of the hook on a state whose flags.bypass_mode is set
BypassRun == Handled /\ before.bypass_mode

\* C29 as stated: with bypass_mode set no request modifies the persisted
\* mode or plan, and no request is blocked except by the branch guard
C29_BypassOnlyBranchGuardBlocks ==
    BypassRun =>
        /\ state = before
        /\ (outcome.exit = 2 => outcome.kind \in BranchBlockKinds)

\* C29 (amended): with bypass_mode set no request modifies the persisted
\* mode or plan; a request is blocked only by the branch guard or, for a
\* mutating Bash request whose file_path names sessions/sessions-state.json,
\* by the state-file guard of Bash, which does not consult the flag
C29_BypassFreezesStateAndModeBlocks ==
    BypassRun =>
        /\ state = before
        /\ outcome.exit = 2 =>
              \/ outcome.kind \in BranchBlockKinds
              \/ /\ outcome.kind = "state_file_protected"
                 /\ request.tool_name = "Bash"
                 /\ IsStateFile(request.file_path)
                 /\ ~ is_bash_read_only(Strip(request.command), config)

\* a TodoWrite under bypass_mode: allowed, and nothing is stored
C29_Witness ==
    /\ BypassRun
    /\ request.tool_name = "TodoWrite"
    /\ request.todos # << >>
    /\ outcome.exit = 0
    /\ state.active = << >>

\* C30: every gate decision, allow or block, appends exactly one audit
\* event to the event log
C30_OneAuditEventPerDecision ==
    Handled => Len(outcome.events) = 1

-----------------------------------------------------------------------------
(* Properties of the workflow_manager hook (checked under SpecWM)          *)

\* the step just taken was a PreToolUse run of main
PreToolUseRan == wm_last.op = "main" /\ wm_last.request.event = "PreToolUse"

\* daic-mode.json was missing, unreadable, not valid JSON, or held a
\* malformed or unrecognised mode
DamagedDaicFile(f) ==
    \/ f.kind \in {"missing", "invalid_json", "unreadable", "unreadable_critical", "not_object"}
    \/ (f.kind = "object" /\ f.mode \notin {Mode_NO, Mode_GO})

\* a call of one of the blocked tools that is not a task selection
MutatingToolCall ==
    /\ PreToolUseRan
    /\ wm_last.request.tool_name \in blocked_tools
    /\ wm_last.request.path # "current_task.json"

\* C12: when the workflow-state file is missing, unreadable, not valid JSON
\* or holds a malformed or unrecognised mode, the mode read yields Discussion:
\* a mutating tool call is blocked, and no exception reaches the caller
C12_DamagedStateReadsDiscussion ==
    (MutatingToolCall /\ DamagedDaicFile(wm_last.daic_before)) =>
        /\ wm_last.outcome.kind = "blocked_by_daic"
        /\ wm_last.outcome.exit = 2

\* the subagent marker of session s indicates an active delegation
MarkerActive(s) == delegations[s] > 0

\* C13: in an active delegation a Write/Edit/MultiEdit whose path resolves
\* into .claude/state is blocked with the boundary-violation message; the
\* same call outside that directory, or without an active delegation, is not
\* blocked by this guard (implementation mode, so that the mode block does
\* not come first)
C13_SubagentBoundary ==
    ( /\ PreToolUseRan
      /\ wm_last.daic_before = DaicObject(Mode_GO)
      /\ wm_last.request.tool_name \in {"Write", "Edit", "MultiEdit"}
      /\ HasPath(wm_last.request.file_path) )
    => IF MarkerActive(wm_last.session) /\ UnderStateDir(wm_last.request.file_path)
       THEN /\ wm_last.outcome.exit = 2
            /\ wm_last.outcome.stderr = "Subagent Boundary Violation"
       ELSE wm_last.outcome.kind # "subagent_boundary"

\* the step just taken was a call of is_subagent_active
QueryRan == wm_last.op = "tracker" /\ wm_last.call.op = "is_subagent_active"

\* C14: the subagent marker is a per-session reentrant counter:
\* is_subagent_active(s) is false before any enter_subagent(s), true while
\* fewer exits than enters have happened, and false after
\* clear_subagent_state(s)
C14_MarkerIsReentrantCounter ==
    QueryRan =>
        /\ wm_last.call.raised = ""
        /\ (MarkerActive(wm_last.session) => wm_last.call.value)
        /\ ( (delegations[wm_last.session] = 0 /\ wm_last.session \notin lingering)
              => ~ wm_last.call.value )

\* the gate blocked the call on workflow-mode grounds
ModeBlocked == wm_last.outcome.kind \in {"blocked_by_daic", "blocked_daic_command"}

\* C16: while a cooldown window is active the gate does not block a call on
\* workflow-mode grounds; with the cooldown absent or expired a mutating tool
\* call in discussion mode is blocked
C16_CooldownSuspendsModeBlock ==
    PreToolUseRan =>
        IF CooldownActive(wm)
        THEN ~ ModeBlocked
        ELSE (MutatingToolCall /\ wm_last.daic_before = DaicObject(Mode_NO)) => ModeBlocked

\* C18: in discussion mode the hook blocks the Bash commands `npm run build`
\* and `./deploy.sh` with exit code 2 and a message containing 'Verbose
\* Command Guard', and allows `ls` with exit code 0
C18_VerboseCommandGuard ==
    ( /\ PreToolUseRan
      /\ wm_last.request.tool_name = "Bash"
      /\ wm_last.daic_before = DaicObject(Mode_NO) )
    => /\ wm_last.request.command \in {<<"npm", SP, "run", SP, "build">>, <<"./deploy.sh">>}
          => (wm_last.outcome.exit = 2 /\ wm_last.outcome.stderr = "Verbose Command Guard")
       /\ wm_last.request.command = <<"ls">> => wm_last.outcome.exit = 0

\* a PreToolUse call of a blocked tool in discussion mode
BlockedToolInDiscussion ==
    /\ PreToolUseRan
    /\ wm_last.daic_before = DaicObject(Mode_NO)
    /\ wm_last.request.tool_name \in blocked_tools

DaicToolBlocked ==
    /\ wm_last.outcome.exit = 2
    /\ wm_last.outcome.kind = "blocked_by_daic"
    /\ wm_last.outcome.stderr = "DAIC: Tool Blocked"

\* C19 as stated: in discussion mode every Edit/Write/MultiEdit/NotebookEdit
\* call is blocked with 'DAIC: Tool Blocked', whatever the subagent marker
\* and the checked-out branch are
C19_ModeBlockAlwaysFirst == BlockedToolInDiscussion => DaicToolBlocked

\* C19 amended: in discussion mode an Edit/Write/MultiEdit/NotebookEdit call
\* that is not a task selection (an Edit naming current_task.json in "path")
\* is blocked with 'DAIC: Tool Blocked' before the subagent-boundary and the
\* branch check are reached, whatever the marker and the branch are
C19_ModeBlockFirst ==
    (BlockedToolInDiscussion /\ wm_last.request.path # "current_task.json")
        => DaicToolBlocked

\* an Edit in discussion mode, in an active delegation, in a repository on
\* another branch than the task's, blocked by the mode check
C19_Witness ==
    /\ BlockedToolInDiscussion
    /\ wm_last.request.path # "current_task.json"
    /\ MarkerActive(wm_last.session)
    /\ wm_last.request.repo.kind = "root"
    /\ wm_last.request.git.status = "ok"
    /\ wm_last.request.git.branch # wm.task.branch
    /\ DaicToolBlocked

-----------------------------------------------------------------------------
(* Properties of state persistence (checked under SpecPersist)             *)

\* a write of the workflow mode or of the task state was cut short by a crash
CrashedMidWrite == disk.writer.pc = "crashed"

\* C22: after a crash at any point during a write of the workflow mode or
\* the task state, the file holds either the complete previous document or
\* the complete new one, never an empty or truncated text, and what a later
\* read returns is what one of the two documents gives
C22_NoPartialWriteExposure ==
    CrashedMidWrite =>
        /\ disk[disk.writer.file] \in {disk.writer.old, Complete(disk.writer.new)}
        /\ disk.writer.file = "task" =>
              get_current_task(disk.task)
                  \in {get_current_task(disk.writer.old), disk.writer.new}

\* the run went past the read-only shortcut and read the workflow mode
ModeConsulted ==
    /\ PreToolUseRan
    /\ ~ ( /\ wm_last.request.tool_name = "Bash"
           /\ is_read_only_bash_command(Strip(wm_last.request.command), WMConfig) )

\* reading the workflow state raised an exception main does not expect: the
\* file is unreadable, or holds JSON that is not an object
StateReadRaised == check_daic_mode_bool(wm_last.daic_before).raised # ""

\* C27: the gate fails open only for branch-detection failures: when the
\* evaluation of a request hits another unexpected internal error (here an
\* unreadable or oddly shaped state file), the tool call is not allowed
\* through as a result of that error
C27_InternalErrorDoesNotAllow ==
    (ModeConsulted /\ StateReadRaised) => wm_last.outcome.exit # 0

====
